---------------------------- MODULE Spec2Model ----------------------------
(***************************************************************************)
(* A model of the folder2anim exporter (flor/createGIF.py, with the soul   *)
(* variant's group resolution beside it): discovery, grouping, selection,  *)
(* preferences, output path, frame loading and saving, run against a       *)
(* directory that outlives the runs.                                       *)
(*                                                                         *)
(* Text (flag values, prompt answers, file names) is a sequence of         *)
(* one-character strings, so that lower(), strip(), split(), isdigit() and *)
(* int() are computed character by character as Python computes them.      *)
(***************************************************************************)
EXTENDS Integers, Sequences, FiniteSets, TLC

VARIABLES dir, run, nruns, arg, ret

vars == <<dir, run, nruns, arg, ret>>

(***************************************************************************)
(* Bounds of the model.                                                    *)
(***************************************************************************)
\* runs started one after another in the same directory
MaxRuns == 2
\* frames the manual selection is allowed to hold in the model
MaxSelected == 2
\* calls of unique_output_path in one behaviour of SpecUnit
MaxCalls == 2
\* the largest suffix among the output names present at the start of SpecUnit
MaxSuffix == 2

(***************************************************************************)
(* Text.                                                                   *)
(***************************************************************************)
Digits == <<"0", "1", "2", "3", "4", "5", "6", "7", "8", "9">>

IsAsciiDigit(c) == \E i \in 1..10 : Digits[i] = c

\* str.isdigit() of one character: the ASCII digits and, among others, the
\* superscript digits, which int() rejects
IsDigitChar(c) == IsAsciiDigit(c) \/ c = "^2"

DigitVal(c) == (CHOOSE i \in 1..10 : Digits[i] = c) - 1

IsSpace(c) == c = " "

\* str.lower() on ASCII letters; other characters of the model are kept
LowerChar(c) ==
    CASE c = "A" -> "a"
      [] c = "B" -> "b"
      [] c = "C" -> "c"
      [] c = "D" -> "d"
      [] c = "E" -> "e"
      [] c = "F" -> "f"
      [] c = "G" -> "g"
      [] c = "H" -> "h"
      [] c = "I" -> "i"
      [] c = "J" -> "j"
      [] c = "K" -> "k"
      [] c = "L" -> "l"
      [] c = "M" -> "m"
      [] c = "N" -> "n"
      [] c = "O" -> "o"
      [] c = "P" -> "p"
      [] c = "Q" -> "q"
      [] c = "R" -> "r"
      [] c = "S" -> "s"
      [] c = "T" -> "t"
      [] c = "U" -> "u"
      [] c = "V" -> "v"
      [] c = "W" -> "w"
      [] c = "X" -> "x"
      [] c = "Y" -> "y"
      [] c = "Z" -> "z"
      [] OTHER -> c

Lower(s) == [i \in 1..Len(s) |-> LowerChar(s[i])]

RECURSIVE LStrip(_)
LStrip(s) == IF s # <<>> /\ IsSpace(Head(s)) THEN LStrip(Tail(s)) ELSE s

RECURSIVE RStrip(_)
RStrip(s) ==
    IF s # <<>> /\ IsSpace(s[Len(s)]) THEN RStrip(SubSeq(s, 1, Len(s) - 1)) ELSE s

\* str.strip()
Strip(s) == RStrip(LStrip(s))

\* c in s
Contains(s, c) == \E i \in 1..Len(s) : s[i] = c

\* s.find(c) + 1, for a character that occurs in s
IndexOf(s, c) == CHOOSE i \in 1..Len(s) : s[i] = c /\ \A j \in 1..(i - 1) : s[j] # c

\* s.rfind(c) + 1, 0 when c does not occur
LastIndexOf(s, c) ==
    IF Contains(s, c)
    THEN CHOOSE i \in 1..Len(s) : s[i] = c /\ \A j \in (i + 1)..Len(s) : s[j] # c
    ELSE 0

\* str.isdigit()
IsDigit(s) == s # <<>> /\ \A i \in 1..Len(s) : IsDigitChar(s[i])

StartsWith(s, c) == s # <<>> /\ s[1] = c

RECURSIVE DecimalValue(_)
DecimalValue(s) ==
    IF s = <<>> THEN 0
    ELSE 10 * DecimalValue(SubSeq(s, 1, Len(s) - 1)) + DigitVal(s[Len(s)])

Ok(v) == [ok |-> TRUE, val |-> v]
ValueError == [ok |-> FALSE, val |-> 0]

\* int(s): surrounding whitespace is dropped, one sign is allowed, and what is
\* left must be ASCII digits; anything else raises ValueError
IntOf(s) ==
    LET t == Strip(s)
        signed == t # <<>> /\ t[1] \in {"-", "+"}
        body == IF signed THEN Tail(t) ELSE t
    IN  IF body # <<>> /\ \A i \in 1..Len(body) : IsAsciiDigit(body[i])
        THEN Ok(IF signed /\ t[1] = "-" THEN 0 - DecimalValue(body) ELSE DecimalValue(body))
        ELSE ValueError

RECURSIVE NatToStr(_)
\* str(i) for i >= 0, as f"{i}" formats it
NatToStr(i) ==
    IF i < 10 THEN <<Digits[i + 1]>> ELSE NatToStr(i \div 10) \o <<Digits[(i % 10) + 1]>>

parse_whxhh_no_positive_check(s) ==
    IF ~Contains(Lower(s), "x") THEN ValueError
    ELSE LET l == Lower(s)
             k == IndexOf(l, "x")
             w == IntOf(Strip(SubSeq(l, 1, k - 1)))
             h == IntOf(Strip(SubSeq(l, k + 1, Len(l))))
         IN  IF ~w.ok \/ ~h.ok THEN ValueError ELSE Ok(<<w.val, h.val>>)

\* parse_whxhh: Ok(<<w, h>>) or ValueError
parse_whxhh(s) ==
    IF ~Contains(Lower(s), "x") THEN ValueError
    ELSE LET l == Lower(s)
             k == IndexOf(l, "x")
             w == IntOf(Strip(SubSeq(l, 1, k - 1)))
             h == IntOf(Strip(SubSeq(l, k + 1, Len(l))))
         IN  IF ~w.ok \/ ~h.ok THEN ValueError
             ELSE IF w.val <= 0 \/ h.val <= 0 THEN ValueError
             ELSE Ok(<<w.val, h.val>>)

(***************************************************************************)
(* sorted(): a stable sort of items by integer-tuple keys.                 *)
(***************************************************************************)
RECURSIVE LexLess(_, _)
\* a < b for tuples of integers, as Python compares tuples
LexLess(a, b) ==
    IF a = <<>> THEN b # <<>>
    ELSE IF b = <<>> THEN FALSE
    ELSE IF Head(a) # Head(b) THEN Head(a) < Head(b)
    ELSE LexLess(Tail(a), Tail(b))

Reverse(s) == [i \in 1..Len(s) |-> s[Len(s) + 1 - i]]

RECURSIVE InsertByKey(_, _)
\* pair = <<key, item>> put after every pair whose key is not greater
InsertByKey(sorted, pair) ==
    IF sorted = <<>> THEN <<pair>>
    ELSE IF LexLess(pair[1], Head(sorted)[1]) THEN <<pair>> \o sorted
    ELSE <<Head(sorted)>> \o InsertByKey(Tail(sorted), pair)

RECURSIVE SortPairs(_)
SortPairs(pairs) ==
    IF pairs = <<>> THEN <<>>
    ELSE InsertByKey(SortPairs(SubSeq(pairs, 1, Len(pairs) - 1)), pairs[Len(pairs)])

\* sorted(items, key=..., reverse=...) with keys[i] the key of items[i]
SortedByKeys(items, keys, reverse) ==
    LET pairs == [i \in 1..Len(items) |-> <<keys[i], items[i]>>]
        asc == IF reverse THEN Reverse(SortPairs(Reverse(pairs))) ELSE SortPairs(pairs)
    IN  [i \in 1..Len(asc) |-> asc[i][2]]

\* ord() of the characters file names use, after lower()
CharCode(c) ==
    CASE c = " " -> 32
      [] c = "-" -> 45
      [] c = "." -> 46
      [] IsAsciiDigit(c) -> 48 + DigitVal(c)
      [] c = "_" -> 95
      [] c = "a" -> 97
      [] c = "b" -> 98
      [] c = "c" -> 99
      [] c = "d" -> 100
      [] c = "e" -> 101
      [] c = "f" -> 102
      [] c = "g" -> 103
      [] c = "i" -> 105
      [] c = "j" -> 106
      [] c = "n" -> 110
      [] c = "p" -> 112
      [] c = "t" -> 116
      [] c = "w" -> 119
      [] c = "x" -> 120
      [] c = "y" -> 121
      [] OTHER -> 126

(***************************************************************************)
(* The directory: a set of entries, one per name.  size is <<>> when       *)
(* Image.open cannot read the entry, loads says whether the whole decode   *)
(* and conversion of load_frames_safely succeeds, ctime is -1 when stat()  *)
(* raises, writer is the run that wrote the entry (0: it was there before).*)
(***************************************************************************)
None == <<>>

Entry(name, is_file, size, loads, ctime) ==
    [name |-> name, is_file |-> is_file, size |-> size, loads |-> loads,
     ctime |-> ctime, writer |-> 0]

Exists(d, n) == \E f \in d : f.name = n

FileAt(d, n) == CHOOSE f \in d : f.name = n

\* Path.suffix: from the last dot, unless the name starts or ends with it
PathSuffix(name) ==
    LET k == LastIndexOf(name, ".")
    IN  IF 1 < k /\ k < Len(name) THEN SubSeq(name, k, Len(name)) ELSE <<>>

SUPPORTED_EXTS ==
    { <<".", "j", "p", "g">>, <<".", "j", "p", "e", "g">>, <<".", "p", "n", "g">>,
      <<".", "b", "m", "p">>, <<".", "t", "i", "f">>, <<".", "t", "i", "f", "f">>,
      <<".", "w", "e", "b", "p">> }

RECURSIVE discover_images_any_entry(_, _)
discover_images_any_entry(d, listing) ==
    IF listing = <<>> THEN <<>>
    ELSE (IF Lower(PathSuffix(Head(listing))) \in SUPPORTED_EXTS
          THEN <<Head(listing)>> ELSE <<>>)
         \o discover_images_any_entry(d, Tail(listing))

RECURSIVE discover_images(_, _)
\* listing is folder.iterdir(): the names of d in the order the system gives
discover_images(d, listing) ==
    IF listing = <<>> THEN <<>>
    ELSE (IF FileAt(d, Head(listing)).is_file
             /\ Lower(PathSuffix(Head(listing))) \in SUPPORTED_EXTS
          THEN <<Head(listing)>> ELSE <<>>)
         \o discover_images(d, Tail(listing))

\* get_image_size: the size, or None when the file cannot be opened or read
get_image_size(d, p) ==
    IF Exists(d, p) /\ FileAt(d, p).is_file THEN FileAt(d, p).size ELSE None

\* groups.setdefault(size, []).append(p) on a dict kept in insertion order
SetDefaultAppend(groups, size, p) ==
    IF \E i \in 1..Len(groups) : groups[i].wh = size
    THEN [i \in 1..Len(groups) |->
            IF groups[i].wh = size
            THEN [wh |-> size, files |-> Append(groups[i].files, p)]
            ELSE groups[i]]
    ELSE Append(groups, [wh |-> size, files |-> <<p>>])

RECURSIVE GroupLoop(_, _, _)
GroupLoop(d, paths, groups) ==
    IF paths = <<>> THEN groups
    ELSE LET size == get_image_size(d, Head(paths))
         IN  IF size = None THEN GroupLoop(d, Tail(paths), groups)
             ELSE GroupLoop(d, Tail(paths), SetDefaultAppend(groups, size, Head(paths)))

RECURSIVE GroupLoopKeepUnreadable(_, _, _)
GroupLoopKeepUnreadable(d, paths, groups) ==
    IF paths = <<>> THEN groups
    ELSE GroupLoopKeepUnreadable(d, Tail(paths),
            SetDefaultAppend(groups, get_image_size(d, Head(paths)), Head(paths)))

group_by_dimensions_keep_unreadable(d, paths) == GroupLoopKeepUnreadable(d, paths, <<>>)

\* group_by_dimensions: the dict as a sequence of [wh, files] in insertion order
group_by_dimensions(d, paths) == GroupLoop(d, paths, <<>>)

GroupKeys(groups) == [i \in 1..Len(groups) |-> groups[i].wh]

HasKey(groups, wh) == \E i \in 1..Len(groups) : groups[i].wh = wh

\* groups[wh]
GroupFiles(groups, wh) == (CHOOSE g \in {groups[i] : i \in 1..Len(groups)} : g.wh = wh).files

sizes_sorted_unsorted(groups) == GroupKeys(groups)

\* sorted(groups.keys(), key=lambda wh: (wh[0] * wh[1], wh[0], wh[1]), reverse=True)
sizes_sorted(groups) ==
    LET ks == GroupKeys(groups)
    IN  SortedByKeys(ks, [i \in 1..Len(ks) |-> <<ks[i][1] * ks[i][2], ks[i][1], ks[i][2]>>], TRUE)

\* p.name.lower() as a tuple of character codes
NameKey(p) == [i \in 1..Len(p) |-> CharCode(LowerChar(p[i]))]

StatOk(d, p) == Exists(d, p) /\ FileAt(d, p).ctime >= 0

sort_by_ctime_mixed_keys(d, paths, reverse) ==
    SortedByKeys(paths,
                 [i \in 1..Len(paths) |->
                     IF StatOk(d, paths[i]) THEN <<1, FileAt(d, paths[i]).ctime>>
                     ELSE <<0>> \o NameKey(paths[i])],
                 reverse)

sort_by_ctime_reverse_ignored(d, paths, reverse) ==
    IF \A i \in 1..Len(paths) : StatOk(d, paths[i])
    THEN SortedByKeys(paths, [i \in 1..Len(paths) |-> <<FileAt(d, paths[i]).ctime>>], FALSE)
    ELSE SortedByKeys(paths, [i \in 1..Len(paths) |-> NameKey(paths[i])], FALSE)

\* sort_by_ctime: by st_ctime, or by lower-cased name when any stat() raises
sort_by_ctime(d, paths, reverse) ==
    IF \A i \in 1..Len(paths) : StatOk(d, paths[i])
    THEN SortedByKeys(paths, [i \in 1..Len(paths) |-> <<FileAt(d, paths[i]).ctime>>], reverse)
    ELSE SortedByKeys(paths, [i \in 1..Len(paths) |-> NameKey(paths[i])], reverse)

(***************************************************************************)
(* unique_output_path.                                                     *)
(***************************************************************************)
\* base_dir.name
BaseName == <<"d">>

Dot(ext) == <<".">> \o ext

\* base_dir / f"{base_name}.{ext}"
PlainName(ext) == BaseName \o Dot(ext)

\* base_dir / f"{base_name}_{i}.{ext}"
CandidateName(i, ext) == BaseName \o <<"_">> \o NatToStr(i) \o Dot(ext)

RECURSIVE ProbeSuffix(_, _, _)
\* the while loop: the first i, counting from the given one, whose name is free
ProbeSuffix(d, ext, i) ==
    IF ~Exists(d, CandidateName(i, ext)) THEN i ELSE ProbeSuffix(d, ext, i + 1)

unique_output_path_no_probe(d, ext, overwrite) == PlainName(ext)

unique_output_path_from_zero(d, ext, overwrite) ==
    IF overwrite \/ ~Exists(d, PlainName(ext)) THEN PlainName(ext)
    ELSE CandidateName(ProbeSuffix(d, ext, 2), ext)

unique_output_path(d, ext, overwrite) ==
    IF overwrite \/ ~Exists(d, PlainName(ext)) THEN PlainName(ext)
    ELSE CandidateName(ProbeSuffix(d, ext, 1), ext)

(***************************************************************************)
(* Inputs: directories, flag values and prompt answers.                    *)
(***************************************************************************)
a_png == <<"a", ".", "p", "n", "g">>
b_PNG == <<"b", ".", "P", "N", "G">>
c_jpg == <<"c", ".", "j", "p", "g">>
e_png == <<"e", ".", "p", "n", "g">>
n_txt == <<"n", ".", "t", "x", "t">>
script_py == <<"s", ".", "p", "y">>

gif == <<"g", "i", "f">>
webp == <<"w", "e", "b", "p">>

Script == Entry(script_py, TRUE, None, FALSE, 1)

\* only files that are no images
DirNoImages == {Script, Entry(n_txt, TRUE, None, FALSE, 2)}
\* image names that cannot be opened, and a directory with an image name
DirUnreadable == {Script, Entry(a_png, TRUE, None, FALSE, 2), Entry(e_png, FALSE, None, FALSE, 3)}
\* two sizes; the creation times differ from the name order, and one file
\* opens and then fails to load
DirTwoGroups ==
    {Script, Entry(a_png, TRUE, <<2, 1>>, TRUE, 3), Entry(b_PNG, TRUE, <<2, 1>>, FALSE, 1),
     Entry(c_jpg, TRUE, <<1, 1>>, TRUE, 2)}
\* two groups of the same area
DirTie == {Entry(a_png, TRUE, <<1, 2>>, TRUE, 1), Entry(b_PNG, TRUE, <<2, 1>>, TRUE, 2)}
\* outputs of earlier runs are there; the only other image fails to load
DirTaken ==
    {Entry(a_png, TRUE, <<1, 1>>, FALSE, 1), Entry(PlainName(gif), TRUE, <<1, 1>>, TRUE, 5),
     Entry(CandidateName(1, gif), TRUE, <<1, 1>>, TRUE, 6),
     Entry(PlainName(webp), TRUE, <<3, 1>>, TRUE, 7)}

InitDirs == {DirNoImages, DirUnreadable, DirTwoGroups, DirTie, DirTaken}

\* an option of the command line: given or not, and its text
Opt(text) == [given |-> TRUE, val |-> text]
NotGiven == [given |-> FALSE, val |-> <<>>]

\* Python's truth value of an Optional[str]
Truthy(o) == o.given /\ o.val # <<>>

GroupTexts ==
    { <<>>, <<"0">>, <<"1">>, <<"2">>, <<"0", "1">>, <<"9">>, <<"0", "0">>, <<"^2">>,
      <<"2", "X", "1">>, <<"3", "x", "3">>, <<"0", "x", "1">>,
      <<"a", "b">>, <<"-", "1">> }

GroupOptions == {NotGiven} \cup {Opt(t) : t \in GroupTexts}

ResizeTexts ==
    { <<>>, <<"2", "x", "1">>, <<"2", "1">>, <<"a", "x", "1">>, <<"0", "x", "1">> }

ResizeOptions == {NotGiven} \cup {Opt(t) : t \in ResizeTexts}

\* --format: click gives None or one of the two choices, in lower case
FmtOptions == {None, gif, webp}

\* what is typed at the resize prompt
ResizeAnswers == { <<>>, <<" ", "1", "X", "2">>, <<"2", "1">> }

\* what is typed at the prompt of the manual selection
Commands ==
    { <<"d", "o", "n", "e">>, <<" ", "D", "O", "N", "E">>, <<"q", "u", "i", "t">>,
      <<"c", "l", "e", "a", "r">>, <<"p", "r", "e", "v", "i", "e", "w">>,
      <<"1">>, <<"2">>, <<"3">>, <<"9">>, <<"0">>, <<"^2">>,
      <<"r", "1">>, <<"R", "2">>, <<"r", "9">>, <<"r", "x">>, <<"r">>, <<"z">> }

Variants == {"flor", "soul"}

Procs == {1, 2}

(***************************************************************************)
(* One run of main.                                                        *)
(***************************************************************************)
IdleRun ==
    [pc |-> "idle", id |-> 0, variant |-> "flor", non_interactive |-> FALSE,
     group |-> NotGiven, choice |-> <<>>, reverse |-> FALSE,
     fmt |-> None, resize |-> NotGiven, resize_input |-> <<>>,
     overwrite |-> FALSE, dry_run |-> FALSE,
     images |-> <<>>, groups |-> <<>>, sizes_sorted |-> <<>>,
     interactive_mode |-> FALSE, selected_wh |-> None, selected_files |-> <<>>,
     user_input |-> <<>>, selected_before |-> <<>>,
     ordered |-> <<>>, final_fmt |-> None, resize_to |-> None, out_path |-> <<>>,
     frames |-> <<>>, failed_count |-> 0, opened |-> <<>>,
     prompts |-> {}, wrote |-> {}, clobbered |-> {},
     exit_code |-> -1, traceback |-> FALSE]

Set(p, r) == run' = [run EXCEPT ![p] = r]

\* sys.exit(code)
Exit(r, code) == [r EXCEPT !.pc = "done", !.exit_code = code]

\* an exception nobody catches: the traceback is printed, the status is 1
Crash(r) == [r EXCEPT !.pc = "done", !.exit_code = 1, !.traceback = TRUE]

Orderings(S) ==
    {f \in [1..Cardinality(S) -> S] : \A i, j \in 1..Cardinality(S) : i # j => f[i] # f[j]}

\* folder.iterdir(): the names of the entries directly in the directory (an
\* entry below a subdirectory has a "/" in its name), in an order the system
\* chooses
Listings(d) == Orderings({f.name : f \in {g \in d : ~Contains(g.name, "/")}})

\* main is entered with the flags parsed by click
Start(p, variant, non_interactive) ==
    /\ run[p].pc = "idle"
    /\ nruns' = nruns + 1
    /\ Set(p, [IdleRun EXCEPT !.pc = "discover", !.id = nruns + 1, !.variant = variant,
                              !.non_interactive = non_interactive])
    /\ UNCHANGED <<dir, arg, ret>>

DiscoverStepNoEmptyCheck(r, listing) ==
    LET images == discover_images(dir, listing)
        groups == group_by_dimensions(dir, images)
    IN  [r EXCEPT !.pc = "select", !.images = images, !.groups = groups,
                  !.sizes_sorted = sizes_sorted(groups)]

\* main, from discover_images to the table of groups
DiscoverStep(r, listing) ==
    LET images == discover_images(dir, listing)
        groups == group_by_dimensions(dir, images)
    IN  IF images = <<>> THEN Exit(r, 1)
        ELSE IF groups = <<>> THEN Exit([r EXCEPT !.images = images], 1)
        ELSE [r EXCEPT !.pc = "select", !.images = images, !.groups = groups,
                       !.sizes_sorted = sizes_sorted(groups)]

Discover(p) ==
    /\ run[p].pc = "discover"
    /\ \E listing \in Listings(dir) : Set(p, DiscoverStep(run[p], listing))
    /\ UNCHANGED <<dir, nruns, arg, ret>>

(***************************************************************************)
(* Resolving the group.                                                    *)
(***************************************************************************)
\* rich's Prompt.ask: the answer stripped, the default for an empty answer
PromptAsk(typed, default) == IF Strip(typed) = <<>> THEN default ELSE Strip(typed)

Manual == [kind |-> "manual", wh |-> None]
Invalid == [kind |-> "invalid", wh |-> None]
Raised == [kind |-> "raised", wh |-> None]
Group(wh) == [kind |-> "group", wh |-> wh]

ResolveSelectorNoKeyCheck(variant, text, groups, sizes) ==
    IF variant = "flor" /\ text = <<"0">> THEN Manual
    ELSE IF IsDigit(text)
    THEN LET gi == IntOf(text)
         IN  IF ~gi.ok THEN Raised
             ELSE IF ~(1 <= gi.val /\ gi.val <= Len(sizes)) THEN Group(sizes[1])
             ELSE Group(sizes[gi.val])
    ELSE LET wh == parse_whxhh(text)
         IN  IF ~wh.ok THEN Group(sizes[1])
             ELSE IF ~HasKey(groups, wh.val) THEN Group(sizes[1])
             ELSE Group(wh.val)

ResolveSelectorZeroIsFirstInSoul(variant, text, groups, sizes) ==
    IF text = <<"0">> THEN (IF variant = "flor" THEN Manual ELSE Group(sizes[1]))
    ELSE IF IsDigit(text)
    THEN LET gi == IntOf(text)
         IN  IF ~gi.ok THEN Raised
             ELSE IF ~(1 <= gi.val /\ gi.val <= Len(sizes)) THEN Invalid
             ELSE Group(sizes[gi.val])
    ELSE LET wh == parse_whxhh(text)
         IN  IF ~wh.ok THEN Invalid
             ELSE IF ~HasKey(groups, wh.val) THEN Invalid
             ELSE Group(wh.val)

\* the branches both paths of main share: '0' (flor only), an index, or a key.
\* Raised is int() raising on text that isdigit() accepts.
ResolveSelector(variant, text, groups, sizes) ==
    IF variant = "flor" /\ text = <<"0">> THEN Manual
    ELSE IF IsDigit(text)
    THEN LET gi == IntOf(text)
         IN  IF ~gi.ok THEN Raised
             ELSE IF ~(1 <= gi.val /\ gi.val <= Len(sizes)) THEN Invalid
             ELSE Group(sizes[gi.val])
    ELSE LET wh == parse_whxhh(text)
         IN  IF ~wh.ok THEN Invalid
             ELSE IF ~HasKey(groups, wh.val) THEN Invalid
             ELSE Group(wh.val)

\* main once the selector is resolved: the group's files sorted, or manual mode
Selected(r, sel, reverse) ==
    IF sel.kind = "manual"
    THEN [r EXCEPT !.pc = "manual", !.interactive_mode = TRUE, !.reverse = reverse]
    ELSE [r EXCEPT !.pc = "prefs", !.selected_wh = sel.wh,
                   !.selected_files = GroupFiles(r.groups, sel.wh),
                   !.reverse = reverse,
                   !.ordered = sort_by_ctime(dir, GroupFiles(r.groups, sel.wh), reverse)]

\* main with --group given (every exception is caught), or with no --group
\* under --non-interactive
GroupFromFlag(r, group, reverse) ==
    LET g == [r EXCEPT !.group = group]
        sel == ResolveSelector(r.variant, group.val, r.groups, r.sizes_sorted)
    IN  IF Truthy(group)
        THEN IF sel.kind \in {"invalid", "raised"} THEN Exit(g, 2)
             ELSE Selected(g, sel, reverse)
        ELSE Exit(g, 2)

ResolveGroup(p, group, reverse) ==
    /\ run[p].pc = "select"
    /\ Truthy(group) \/ run[p].non_interactive
    /\ Set(p, GroupFromFlag(run[p], group, reverse))
    /\ UNCHANGED <<dir, nruns, arg, ret>>

\* main asking for the group: int() raising is caught by nobody here
GroupFromPrompt(r, group, typed, reverse) ==
    LET choice == PromptAsk(typed, <<"1">>)
        g == [r EXCEPT !.group = group, !.choice = choice,
                       !.prompts = @ \cup {"group"}]
        sel == ResolveSelector(r.variant, choice, r.groups, r.sizes_sorted)
    IN  IF sel.kind = "raised" THEN Crash(g)
        ELSE IF sel.kind = "invalid" THEN Exit(g, 2)
        ELSE Selected(g, sel, reverse)

AskGroup(p, group, typed, reverse) ==
    /\ run[p].pc = "select"
    /\ ~Truthy(group) /\ ~run[p].non_interactive
    /\ Set(p, GroupFromPrompt(run[p], group, typed, reverse))
    /\ UNCHANGED <<dir, nruns, arg, ret>>

(***************************************************************************)
(* interactive_image_selection: one turn of its loop.                      *)
(***************************************************************************)
RemoveAt(s, k) == SubSeq(s, 1, k - 1) \o SubSeq(s, k + 1, Len(s))

ManualReturnedSorted(r) ==
    IF r.selected_files # <<>>
    THEN LET first_size == get_image_size(dir, r.selected_files[1])
         IN  [r EXCEPT !.pc = "prefs",
                       !.selected_wh = IF first_size # None THEN first_size ELSE <<800, 600>>,
                       !.ordered = sort_by_ctime(dir, r.selected_files, r.reverse)]
    ELSE Exit(r, 2)

\* main after interactive_image_selection returned
ManualReturned(r) ==
    IF r.selected_files # <<>>
    THEN LET first_size == get_image_size(dir, r.selected_files[1])
         IN  [r EXCEPT !.pc = "prefs",
                       !.selected_wh = IF first_size # None THEN first_size ELSE <<800, 600>>,
                       !.ordered = r.selected_files]
    ELSE Exit(r, 2)

\* one turn of the loop of interactive_image_selection, and main after its return
ManualTurn(r, typed) ==
    LET user_input == Lower(Strip(PromptAsk(typed, <<>>)))
        q == [r EXCEPT !.prompts = @ \cup {"manual"}, !.user_input = user_input,
                       !.selected_before = r.selected_files]
    IN  IF user_input = <<"d", "o", "n", "e">>
        THEN IF q.selected_files = <<>> THEN q ELSE ManualReturned(q)
        ELSE IF user_input = <<"q", "u", "i", "t">> THEN Exit(q, 0)
        ELSE IF user_input = <<"c", "l", "e", "a", "r">> THEN [q EXCEPT !.selected_files = <<>>]
        ELSE IF user_input = <<"p", "r", "e", "v", "i", "e", "w">> THEN q
        ELSE IF StartsWith(user_input, "r") /\ Len(user_input) > 1
        THEN LET frame_num == IntOf(Tail(user_input))
             IN  IF frame_num.ok /\ 1 <= frame_num.val /\ frame_num.val <= Len(q.selected_files)
                 THEN [q EXCEPT !.selected_files = RemoveAt(@, frame_num.val)]
                 ELSE q
        ELSE IF IsDigit(user_input)
        THEN LET img_num == IntOf(user_input)
             IN  IF ~img_num.ok THEN Crash(q)
                 ELSE IF 1 <= img_num.val /\ img_num.val <= Len(q.images)
                 THEN [q EXCEPT !.selected_files = Append(@, q.images[img_num.val])]
                 ELSE q
        ELSE q

ManualCommand(p, typed) ==
    /\ run[p].pc = "manual"
    /\ Len(ManualTurn(run[p], typed).selected_files) <= MaxSelected
    /\ Set(p, ManualTurn(run[p], typed))
    /\ UNCHANGED <<dir, nruns, arg, ret>>

(***************************************************************************)
(* Format and resize preferences.                                          *)
(***************************************************************************)
\* ask_user_preferences in interactive mode: <<fmt_choice, resize_to>>.  A
\* malformed resize answer is warned about and dropped.
ask_user_preferences(fmt_answer, resize_input) ==
    LET parsed == parse_whxhh(resize_input)
    IN  <<fmt_answer, IF resize_input # <<>> /\ parsed.ok THEN parsed.val ELSE None>>

PreferencesAnswersWin(r, fmt, resize, fmt_answer, resize_typed) ==
    LET asks == ~r.non_interactive /\ (fmt = None \/ ~Truthy(resize))
        resize_input == Strip(PromptAsk(resize_typed, <<>>))
        answers == ask_user_preferences(fmt_answer, resize_input)
        final_fmt == IF asks THEN answers[1] ELSE fmt
        resize_to == IF asks THEN answers[2] ELSE None
        q == [r EXCEPT !.fmt = fmt, !.resize = resize,
                       !.resize_input = IF asks THEN resize_input ELSE <<>>,
                       !.prompts = IF asks THEN @ \cup {"format", "resize"} ELSE @,
                       !.final_fmt = IF final_fmt = None THEN gif ELSE final_fmt,
                       !.resize_to = resize_to]
    IN  IF Truthy(resize) /\ resize_to = None
        THEN IF parse_whxhh(resize.val).ok
             THEN [q EXCEPT !.pc = "plan", !.resize_to = parse_whxhh(resize.val).val]
             ELSE Exit(q, 2)
        ELSE [q EXCEPT !.pc = "plan"]

\* main from 'final_fmt = fmt' to the parse of --resize
Preferences(r, fmt, resize, fmt_answer, resize_typed) ==
    LET asks == ~r.non_interactive /\ (fmt = None \/ ~Truthy(resize))
        resize_input == Strip(PromptAsk(resize_typed, <<>>))
        answers == ask_user_preferences(fmt_answer, resize_input)
        final_fmt == IF asks /\ fmt = None THEN answers[1] ELSE fmt
        resize_to == IF asks /\ ~Truthy(resize) THEN answers[2] ELSE None
        q == [r EXCEPT !.fmt = fmt, !.resize = resize,
                       !.resize_input = IF asks THEN resize_input ELSE <<>>,
                       !.prompts = IF asks THEN @ \cup {"format", "resize"} ELSE @,
                       !.final_fmt = IF final_fmt = None THEN gif ELSE final_fmt,
                       !.resize_to = resize_to]
    IN  IF Truthy(resize) /\ resize_to = None
        THEN IF parse_whxhh(resize.val).ok
             THEN [q EXCEPT !.pc = "plan", !.resize_to = parse_whxhh(resize.val).val]
             ELSE Exit(q, 2)
        ELSE [q EXCEPT !.pc = "plan"]

\* whether main calls ask_user_preferences
AsksPreferences(r, fmt, resize) == ~r.non_interactive /\ (fmt = None \/ ~Truthy(resize))

SetPreferences(p, fmt, resize) ==
    /\ run[p].pc = "prefs"
    /\ ~AsksPreferences(run[p], fmt, resize)
    /\ Set(p, Preferences(run[p], fmt, resize, gif, <<>>))
    /\ UNCHANGED <<dir, nruns, arg, ret>>

AskPreferences(p, fmt, resize, fmt_answer, resize_typed) ==
    /\ run[p].pc = "prefs"
    /\ AsksPreferences(run[p], fmt, resize)
    /\ Set(p, Preferences(run[p], fmt, resize, fmt_answer, resize_typed))
    /\ UNCHANGED <<dir, nruns, arg, ret>>

(***************************************************************************)
(* The plan, the confirmation, the frames and the file.                    *)
(***************************************************************************)
\* main from the plan table to the dry-run exit: the output path is chosen here
PlanStepIgnoresDryRun(r, overwrite, dry_run) ==
    LET q == [r EXCEPT !.overwrite = overwrite, !.dry_run = dry_run,
                       !.out_path = unique_output_path(dir, Lower(r.final_fmt), overwrite)]
    IN  IF ~q.non_interactive THEN [q EXCEPT !.pc = "confirm"]
        ELSE [q EXCEPT !.pc = "load"]

PlanStep(r, overwrite, dry_run) ==
    LET q == [r EXCEPT !.overwrite = overwrite, !.dry_run = dry_run,
                       !.out_path = unique_output_path(dir, Lower(r.final_fmt), overwrite)]
    IN  IF dry_run THEN Exit(q, 0)
        ELSE IF ~q.non_interactive THEN [q EXCEPT !.pc = "confirm"]
        ELSE [q EXCEPT !.pc = "load"]

Plan(p, overwrite, dry_run) ==
    /\ run[p].pc = "plan"
    /\ Set(p, PlanStep(run[p], overwrite, dry_run))
    /\ UNCHANGED <<dir, nruns, arg, ret>>

ConfirmedRefusalIsAnError(r, ok) ==
    IF ok THEN [r EXCEPT !.pc = "load", !.prompts = @ \cup {"confirm"}]
    ELSE Exit([r EXCEPT !.prompts = @ \cup {"confirm"}], 2)

\* Confirm.ask before anything is loaded: a refusal is sys.exit(0)
Confirmed(r, ok) ==
    IF ok THEN [r EXCEPT !.pc = "load", !.prompts = @ \cup {"confirm"}]
    ELSE Exit([r EXCEPT !.prompts = @ \cup {"confirm"}], 0)

Confirm(p, ok) ==
    /\ run[p].pc = "confirm"
    /\ Set(p, Confirmed(run[p], ok))
    /\ UNCHANGED <<dir, nruns, arg, ret>>

\* whether the body of the try of load_frames_safely runs through for a path
Loads(d, img_path) ==
    /\ Exists(d, img_path)
    /\ FileAt(d, img_path).is_file
    /\ FileAt(d, img_path).size # None
    /\ FileAt(d, img_path).loads

\* the frame load_frames_safely keeps for a path
FrameOf(d, img_path, resize_to) ==
    [src |-> img_path,
     size |-> IF resize_to # None THEN resize_to ELSE FileAt(d, img_path).size]

LoadOneStopAtFailure(r) ==
    LET img_path == r.ordered[Len(r.opened) + 1]
        q == [r EXCEPT !.opened = Append(@, img_path)]
    IN  IF Loads(dir, img_path)
        THEN [q EXCEPT !.frames = Append(@, FrameOf(dir, img_path, r.resize_to))]
        ELSE [q EXCEPT !.failed_count = @ + 1, !.opened = r.ordered]

\* one turn of the loop of load_frames_safely: the next path is opened, and
\* is a frame or a failure
LoadOne(r) ==
    LET img_path == r.ordered[Len(r.opened) + 1]
        q == [r EXCEPT !.opened = Append(@, img_path)]
    IN  IF Loads(dir, img_path)
        THEN [q EXCEPT !.frames = Append(@, FrameOf(dir, img_path, r.resize_to))]
        ELSE [q EXCEPT !.failed_count = @ + 1]

LoadFrame(p) ==
    /\ run[p].pc = "load"
    /\ Len(run[p].opened) < Len(run[p].ordered)
    /\ Set(p, LoadOne(run[p]))
    /\ UNCHANGED <<dir, nruns, arg, ret>>

LoadEndExitsOne(r) == IF r.frames = <<>> THEN Exit(r, 1) ELSE [r EXCEPT !.pc = "save"]

\* the end of load_frames_safely: no frame raises ValueError, main exits with 3
LoadEnd(r) == IF r.frames = <<>> THEN Exit(r, 3) ELSE [r EXCEPT !.pc = "save"]

LoadReturn(p) ==
    /\ run[p].pc = "load"
    /\ Len(run[p].opened) = Len(run[p].ordered)
    /\ Set(p, LoadEnd(run[p]))
    /\ UNCHANGED <<dir, nruns, arg, ret>>

\* the file first.save() leaves at out_path
Written(r) ==
    [name |-> r.out_path, is_file |-> TRUE, size |-> r.frames[1].size, loads |-> TRUE,
     ctime |-> 9, writer |-> r.id]

\* what is left at out_path when the encoder raises after the file was opened
Partial(r) ==
    [name |-> r.out_path, is_file |-> TRUE, size |-> None, loads |-> FALSE,
     ctime |-> 9, writer |-> r.id]

ReplaceDirectory(d, entry) == {entry}

Replace(d, entry) == {f \in d : f.name # entry.name} \cup {entry}

\* save_animation and the end of main.  outcome: "ok", "raised" (nothing was
\* opened for writing) or "partial" (the encoder raised after the file was
\* opened).
SaveRun(r, d, outcome) ==
    LET hit == IF Exists(d, r.out_path) THEN {r.out_path} ELSE {}
    IN  CASE outcome = "ok" ->
               Exit([r EXCEPT !.wrote = @ \cup {r.out_path}, !.clobbered = @ \cup hit], 0)
          [] outcome = "partial" ->
               Exit([r EXCEPT !.wrote = @ \cup {r.out_path}, !.clobbered = @ \cup hit], 3)
          [] OTHER -> Exit(r, 3)

\* the directory after the call
SaveDir(r, d, outcome) ==
    CASE outcome = "ok" -> Replace(d, Written(r))
      [] outcome = "partial" -> Replace(d, Partial(r))
      [] OTHER -> d

Save(p, outcome) ==
    /\ run[p].pc = "save"
    /\ dir' = SaveDir(run[p], dir, outcome)
    /\ Set(p, SaveRun(run[p], dir, outcome))
    /\ UNCHANGED <<nruns, arg, ret>>

SaveOutcomes == {"ok", "raised", "partial"}

\* the process has ended; the next invocation starts from the directory as it is
Finish(p) ==
    /\ run[p].pc = "done"
    /\ nruns < MaxRuns
    /\ Set(p, IdleRun)
    /\ UNCHANGED <<dir, nruns, arg, ret>>

(***************************************************************************)
(* Spec: one invocation, every flag and every answer.                      *)
(***************************************************************************)
NoCall == [fn |-> "none"]

Init ==
    /\ dir \in InitDirs
    /\ run = [p \in Procs |-> IdleRun]
    /\ nruns = 0
    /\ arg = NoCall
    /\ ret = <<>>

Next ==
    \/ \E v \in Variants, ni \in BOOLEAN : Start(1, v, ni)
    \/ Discover(1)
    \/ \E g \in GroupOptions, rev \in BOOLEAN : ResolveGroup(1, g, rev)
    \/ \E g \in {NotGiven, Opt(<<>>)}, t \in GroupTexts, rev \in BOOLEAN : AskGroup(1, g, t, rev)
    \/ \E t \in Commands : ManualCommand(1, t)
    \/ \E f \in FmtOptions, rs \in ResizeOptions : SetPreferences(1, f, rs)
    \/ \E f \in FmtOptions, rs \in ResizeOptions, fa \in {gif, webp}, t \in ResizeAnswers :
          AskPreferences(1, f, rs, fa, t)
    \/ \E ow \in BOOLEAN, dry \in BOOLEAN : Plan(1, ow, dry)
    \/ \E ok \in BOOLEAN : Confirm(1, ok)
    \/ LoadFrame(1)
    \/ LoadReturn(1)
    \/ \E o \in SaveOutcomes : Save(1, o)

Spec == Init /\ [][Next]_vars

(***************************************************************************)
(* SpecRuns: invocations without prompts, one after another and two at a   *)
(* time, in one directory.                                                 *)
(***************************************************************************)
InitRuns ==
    /\ dir \in {DirTie, DirTaken}
    /\ run = [p \in Procs |-> IdleRun]
    /\ nruns = 0
    /\ arg = NoCall
    /\ ret = <<>>

NextRuns ==
    \E p \in Procs :
        \/ Start(p, "flor", TRUE)
        \/ Discover(p)
        \/ ResolveGroup(p, Opt(<<"1">>), FALSE)
        \/ \E f \in {gif, webp} : SetPreferences(p, f, NotGiven)
        \/ \E ow \in BOOLEAN : Plan(p, ow, FALSE)
        \/ LoadFrame(p)
        \/ LoadReturn(p)
        \/ Save(p, "ok")
        \/ Finish(p)

SpecRuns == InitRuns /\ [][NextRuns]_vars

(***************************************************************************)
(* SpecPair: the two variants side by side.  Process 1 runs flor/createGIF *)
(* and process 2 soul/createGIF, each on its own copy of the same          *)
(* directory, with the same flags, the same listing order, the same        *)
(* answers and the same outcome of the encoder; they step together as long *)
(* as both are at the same place of main.                                  *)
(***************************************************************************)
Together(pc) == \A p \in Procs : run[p].pc = pc

Both(r1, r2) == run' = [run EXCEPT ![1] = r1, ![2] = r2]

PairStart(non_interactive) ==
    /\ Together("idle")
    /\ nruns' = Cardinality(Procs)
    /\ Both([IdleRun EXCEPT !.pc = "discover", !.id = 1, !.variant = "flor",
                            !.non_interactive = non_interactive],
            [IdleRun EXCEPT !.pc = "discover", !.id = 2, !.variant = "soul",
                            !.non_interactive = non_interactive])
    /\ UNCHANGED <<dir, arg, ret>>

PairDiscover ==
    /\ Together("discover")
    /\ \E listing \in Listings(dir) :
          Both(DiscoverStep(run[1], listing), DiscoverStep(run[2], listing))
    /\ UNCHANGED <<dir, nruns, arg, ret>>

PairResolveGroup(group, reverse) ==
    /\ Together("select")
    /\ Truthy(group) \/ run[1].non_interactive
    /\ Both(GroupFromFlag(run[1], group, reverse), GroupFromFlag(run[2], group, reverse))
    /\ UNCHANGED <<dir, nruns, arg, ret>>

PairAskGroup(group, typed, reverse) ==
    /\ Together("select")
    /\ ~Truthy(group) /\ ~run[1].non_interactive
    /\ Both(GroupFromPrompt(run[1], group, typed, reverse),
            GroupFromPrompt(run[2], group, typed, reverse))
    /\ UNCHANGED <<dir, nruns, arg, ret>>

PairPreferences(fmt, resize, fmt_answer, resize_typed) ==
    /\ Together("prefs")
    /\ ~AsksPreferences(run[1], fmt, resize) => (fmt_answer = gif /\ resize_typed = <<>>)
    /\ Both(Preferences(run[1], fmt, resize, fmt_answer, resize_typed),
            Preferences(run[2], fmt, resize, fmt_answer, resize_typed))
    /\ UNCHANGED <<dir, nruns, arg, ret>>

PairPlan(overwrite, dry_run) ==
    /\ Together("plan")
    /\ Both(PlanStep(run[1], overwrite, dry_run), PlanStep(run[2], overwrite, dry_run))
    /\ UNCHANGED <<dir, nruns, arg, ret>>

PairConfirm(ok) ==
    /\ Together("confirm")
    /\ Both(Confirmed(run[1], ok), Confirmed(run[2], ok))
    /\ UNCHANGED <<dir, nruns, arg, ret>>

PairLoadFrame ==
    /\ Together("load")
    /\ \A p \in Procs : Len(run[p].opened) < Len(run[p].ordered)
    /\ Both(LoadOne(run[1]), LoadOne(run[2]))
    /\ UNCHANGED <<dir, nruns, arg, ret>>

PairLoadReturn ==
    /\ Together("load")
    /\ \A p \in Procs : Len(run[p].opened) = Len(run[p].ordered)
    /\ Both(LoadEnd(run[1]), LoadEnd(run[2]))
    /\ UNCHANGED <<dir, nruns, arg, ret>>

\* both copies of the directory get the file of their process; they stay
\* one directory as long as the two files are the same
PairSave(outcome) ==
    /\ Together("save")
    /\ Both(SaveRun(run[1], dir, outcome), SaveRun(run[2], dir, outcome))
    /\ dir' = SaveDir(run[2], SaveDir(run[1], dir, outcome), outcome)
    /\ UNCHANGED <<nruns, arg, ret>>

NextPair ==
    \/ \E ni \in BOOLEAN : PairStart(ni)
    \/ PairDiscover
    \/ \E g \in GroupOptions, rev \in BOOLEAN : PairResolveGroup(g, rev)
    \/ \E g \in {NotGiven, Opt(<<>>)}, t \in GroupTexts, rev \in BOOLEAN : PairAskGroup(g, t, rev)
    \/ \E f \in FmtOptions, rs \in ResizeOptions, fa \in {gif, webp}, t \in ResizeAnswers :
          PairPreferences(f, rs, fa, t)
    \/ \E ow \in BOOLEAN, dry \in BOOLEAN : PairPlan(ow, dry)
    \/ \E ok \in BOOLEAN : PairConfirm(ok)
    \/ PairLoadFrame
    \/ PairLoadReturn
    \/ \E o \in SaveOutcomes : PairSave(o)

SpecPair == Init /\ [][NextPair]_vars

(***************************************************************************)
(* SpecWebP: the batch converter 02_WEB/assets/TurnToWebP.py in its        *)
(* "webp" mode, run once in a folder.  A file of the folder is its name    *)
(* and its content: the name of the original whose picture it holds.       *)
(***************************************************************************)
Picture(name, content) == [name |-> name, is_file |-> TRUE, content |-> content]

\* what a failed save leaves behind: a file that holds no picture
Damaged == <<>>

SUPPORTED_FORMATS ==
    { <<".", "j", "p", "g">>, <<".", "j", "p", "e", "g">>, <<".", "p", "n", "g">>,
      <<".", "g", "i", "f">>, <<".", "b", "m", "p">>, <<".", "t", "i", "f", "f">> }

\* os.path.splitext(p): <<root, ext>>, split at the last dot unless the name
\* begins with it
splitext(p) ==
    LET k == LastIndexOf(p, ".")
    IN  IF k > 1 THEN <<SubSeq(p, 1, k - 1), SubSeq(p, k, Len(p))>> ELSE <<p, <<>>>>

EndsWith(s, suffix) ==
    Len(s) >= Len(suffix) /\ SubSeq(s, Len(s) - Len(suffix) + 1, Len(s)) = suffix

\* get_image_files; listing is os.listdir(directory)
RECURSIVE get_image_files(_, _)
get_image_files(d, listing) ==
    IF listing = <<>> THEN <<>>
    ELSE LET file == Head(listing)
             ext == Lower(splitext(file)[2])
         IN  (IF FileAt(d, file).is_file
                 /\ ext \in SUPPORTED_FORMATS /\ ~EndsWith(file, <<".">> \o webp)
              THEN <<file>> ELSE <<>>)
             \o get_image_files(d, Tail(listing))

\* convert_to_webp: output_path = os.path.splitext(file_path)[0] + '.webp'
output_path(file_path) == splitext(file_path)[1] \o <<".">> \o webp

\* convert_to_webp: the folder after the call and the value returned.  ok:
\* the picture is saved at output_path; unreadable: Image.open raised;
\* partial: img.save raised after output_path was opened for writing.
convert_to_webp(d, file_path, outcome) ==
    CASE outcome = "ok" ->
           [d |-> Replace(d, Picture(output_path(file_path), FileAt(d, file_path).content)),
            returned |-> output_path(file_path)]
      [] outcome = "partial" ->
           [d |-> Replace(d, Picture(output_path(file_path), Damaged)), returned |-> None]
      [] OTHER -> [d |-> d, returned |-> None]

ConvertOutcomes == {"ok", "unreadable", "partial"}

\* the converter before main is entered
IdleConverter ==
    [pc |-> "idle", image_files |-> <<>>, next |-> 1, converted_files |-> <<>>,
     delete_confirm |-> FALSE, deleted |-> <<>>, returned |-> -1]

\* main: return code (0: the paths that return 0 or fall off the end)
Return(c, code) == [c EXCEPT !.pc = "done", !.returned = code]

\* main up to the confirmation: get_image_files(script_dir)
FindImages ==
    /\ run[1].pc = "idle"
    /\ \E listing \in Listings(dir) :
          LET image_files == get_image_files(dir, listing)
          IN  Set(1, IF image_files = <<>> THEN Return(run[1], 0)
                     ELSE [run[1] EXCEPT !.pc = "confirm", !.image_files = image_files])
    /\ UNCHANGED <<dir, nruns, arg, ret>>

\* main: 'Ready to convert ... Proceed?'
ProcessConfirm(ok) ==
    /\ run[1].pc = "confirm"
    /\ Set(1, IF ok THEN [run[1] EXCEPT !.pc = "convert"] ELSE Return(run[1], 0))
    /\ UNCHANGED <<nruns, dir, arg, ret>>

\* process_images: one turn of its loop
ConvertNext(outcome) ==
    /\ run[1].pc = "convert"
    /\ run[1].next <= Len(run[1].image_files)
    /\ LET file_path == run[1].image_files[run[1].next]
           call == convert_to_webp(dir, file_path, outcome)
       IN  /\ dir' = call.d
           /\ Set(1, [run[1] EXCEPT
                        !.next = @ + 1,
                        !.converted_files =
                            IF call.returned # None
                            THEN Append(@, [original |-> file_path, webp |-> call.returned])
                            ELSE @])
    /\ UNCHANGED <<nruns, arg, ret>>

\* main after process_images: the question about the originals, asked only
\* when something was converted
DeleteConfirm(ok) ==
    /\ run[1].pc = "convert"
    /\ run[1].next > Len(run[1].image_files)
    /\ Set(1, IF run[1].converted_files # <<>> /\ ok
              THEN [run[1] EXCEPT !.pc = "delete", !.delete_confirm = TRUE, !.next = 1]
              ELSE Return(run[1], 0))
    /\ UNCHANGED <<nruns, dir, arg, ret>>

\* main: os.remove(file_info["original"]) for the next converted file
DeleteNext ==
    /\ run[1].pc = "delete"
    /\ run[1].next <= Len(run[1].converted_files)
    /\ LET original == run[1].converted_files[run[1].next].original
       IN  /\ dir' = {f \in dir : f.name # original}
           /\ Set(1, [run[1] EXCEPT !.next = @ + 1, !.deleted = Append(@, original)])
    /\ UNCHANGED <<nruns, arg, ret>>

\* main falls off its end
DeleteEnd ==
    /\ run[1].pc = "delete"
    /\ run[1].next > Len(run[1].converted_files)
    /\ Set(1, Return(run[1], 0))
    /\ UNCHANGED <<nruns, dir, arg, ret>>

\* the files a folder may hold: two originals of one base name, a third
\* original, a WebP picture that is there already, and a file that is no image
WebPFiles ==
    { Picture(<<"a", ".", "j", "p", "g">>, <<"a", ".", "j", "p", "g">>), Picture(<<"a", ".", "P", "N", "G">>, <<"a", ".", "P", "N", "G">>), Picture(<<"b", ".", "g", "i", "f">>, <<"b", ".", "g", "i", "f">>),
      Picture(<<"a", ".", "w", "e", "b", "p">>, <<"a", ".", "w", "e", "b", "p">>), Picture(n_txt, n_txt) }

InitWebP ==
    /\ dir \in (SUBSET WebPFiles) \ {{}}
    /\ run = [p \in Procs |-> IdleConverter]
    /\ nruns = 0
    /\ arg = NoCall
    /\ ret = <<>>

NextWebP ==
    \/ FindImages
    \/ \E ok \in BOOLEAN : ProcessConfirm(ok)
    \/ \E outcome \in ConvertOutcomes : ConvertNext(outcome)
    \/ \E ok \in BOOLEAN : DeleteConfirm(ok)
    \/ DeleteNext
    \/ DeleteEnd

SpecWebP == InitWebP /\ [][NextWebP]_vars

(***************************************************************************)
(* SpecUnit: the helpers called on their own, on inputs drawn at the start.*)
(***************************************************************************)
\* Format conversion.  An image is its mode and one pixel of it: the colour
\* stored there and whether it is transparent there (for mode P: whether
\* the pixel has the transparent palette index).
White == "white"

Opaque == "opaque"

Transparent == "transparent"

Image(mode, color, alpha) == [mode |-> mode, color |-> color, alpha |-> alpha]

\* Image.new('RGB', image.size, (255, 255, 255))
Background == Image("RGB", White, Opaque)

\* background.paste(image, mask=...): the pixel is replaced in proportion to
\* the mask
PasteWithMask(background, image, mask) ==
    IF mask = Transparent THEN background
    ELSE [background EXCEPT !.color = image.color]

\* background.paste(image): the pixel is replaced, the alpha band is not used
Paste(background, image) == [background EXCEPT !.color = image.color]

\* image.convert("P", palette=Image.Palette.ADAPTIVE): the possible results.
\* An image already in mode P is copied as it is, transparent index included;
\* the quantizer takes L, RGB and RGBA and rejects or passes on other modes.
ConvertToPalette(image) ==
    IF image.mode = "P" THEN {Ok(image)}
    ELSE IF image.mode \in {"L", "RGB", "RGBA"} THEN {Ok([image EXCEPT !.mode = "P"])}
    ELSE {ValueError, Ok([image EXCEPT !.mode = "P"])}

\* image.convert("RGBA"): the alpha of the source is kept
ConvertToRGBA(image) == [image EXCEPT !.mode = "RGBA"]

\* _convert_for_gif: the possible results
convert_for_gif(image) ==
    IF image.mode \in {"RGBA", "LA"}
    THEN IF image.mode = "RGBA"
         THEN ConvertToPalette(PasteWithMask(Background, image, image.alpha))
         ELSE ConvertToPalette(Paste(Background, image))
    ELSE ConvertToPalette(image)

convert_for_webp_keeps_mode(image) == {Ok(image)}

\* _convert_for_webp
convert_for_webp(image) ==
    IF image.mode \notin {"RGBA", "RGB"} THEN {Ok(ConvertToRGBA(image))}
    ELSE {Ok(image)}

\* _ensure_rgba
ensure_rgba(image) ==
    IF image.mode # "RGBA" THEN {Ok(ConvertToRGBA(image))} ELSE {Ok(image)}

\* the body of the try of load_frames_safely from the format conversions on:
\* the frame appended, or the exception that makes the path a failure
ConvertedFrames(image, target_format) ==
    IF Lower(target_format) = gif THEN convert_for_gif(image)
    ELSE IF Lower(target_format) = webp THEN convert_for_webp(image)
    ELSE ensure_rgba(image)

UnitModes == {"RGB", "RGBA", "L", "LA", "P", "PA"}

\* images of every mode; modes without transparency are opaque
UnitImages ==
    {Image(mode, color, alpha) : mode \in UnitModes, color \in {White, "black"},
                                 alpha \in {Transparent, Opaque}}
        \ {Image(mode, color, Transparent) : mode \in {"RGB", "L"}, color \in {White, "black"}}

DEFAULT_FPS == 8

MAX_FPS == 60

Max(a, b) == IF a >= b THEN a ELSE b

duration_ms_unclamped(fps) == 1000 \div Max(1, fps)

\* save_animation: duration_ms = max(1, int(1000 / max(1, fps)))
duration_ms(fps) == Max(1, 1000 \div Max(1, fps))

\* frame rates: what --fps accepts and its neighbours, and rates around 1000
UnitFps == ((0 - 2)..(MAX_FPS + 2)) \cup {999, 1000, 1001, 2000}

\* What the encoder behind first.save(..., save_all=True, append_images=rest,
\* duration=duration, loop=0) stores for the frames handed to it: the frames
\* in order, each with the duration; the encoder of the imaging library may
\* store a frame equal to the one before it as a longer display of that one
\* (the durations are added) instead of as a frame of its own.
RECURSIVE StoredFrames(_, _)
StoredFrames(frames, duration) ==
    IF frames = <<>> THEN {<<>>}
    ELSE LET first == [image |-> Head(frames), duration |-> duration]
         IN  UNION { {<<first>> \o rest}
                     \cup (IF rest # <<>> /\ rest[1].image = first.image
                           THEN {[rest EXCEPT ![1].duration = @ + duration]}
                           ELSE {}) : rest \in StoredFrames(Tail(frames), duration) }

\* save_animation: the possible results.  raised: ValueError, nothing was
\* opened; otherwise file is the animation written at out_path.
save_animation(frames, out_path, fps, fmt) ==
    IF frames = <<>> THEN {[raised |-> TRUE, file |-> None]}
    ELSE IF fmt \in {gif, webp}
         THEN {[raised |-> FALSE,
                file |-> [name |-> out_path, format |-> fmt, loop |-> 0, frames |-> stored]] :
                  stored \in StoredFrames(frames, duration_ms(fps))}
         ELSE {[raised |-> TRUE, file |-> None]}

\* frame lists for save_animation: up to MaxSelected frames of two contents
UnitFrameLists == UNION {[1..n -> {"A", "B"}] : n \in 0..MaxSelected}

\* Sizes through load_frames_safely.  A decoded file is its image, its pixel
\* size as stored and its EXIF orientation tag (1: none).
RawImage(image, size, orientation) ==
    [image |-> image, size |-> size, orientation |-> orientation]

\* ImageOps.exif_transpose: orientations 5 to 8 turn the image by a quarter,
\* width and height change places
exif_transpose(raw) ==
    IF raw.orientation \in 5..8
    THEN [raw EXCEPT !.size = <<raw.size[2], raw.size[1]>>, !.orientation = 1]
    ELSE [raw EXCEPT !.orientation = 1]

resize_keep_aspect(processed, resize_to) ==
    IF processed.size[1] * resize_to[2] = processed.size[2] * resize_to[1]
    THEN [processed EXCEPT !.size = resize_to]
    ELSE [processed EXCEPT !.size = <<resize_to[1], 1>>]

\* processed_image.resize(resize_to, Resampling.LANCZOS)
resize(processed, resize_to) == [processed EXCEPT !.size = resize_to]

\* the body of the try of load_frames_safely for one file: the frames that
\* can be appended (Ok) or the exception that makes the file a failure.  The
\* conversions give an image of the size of their argument (Image.new('RGB',
\* image.size, ...), convert()).
LoadBody(raw, resize_to, target_format) ==
    LET transposed == exif_transpose(raw)
        processed == IF resize_to # None THEN resize(transposed, resize_to)
                     ELSE transposed
    IN  { IF c.ok THEN Ok([image |-> c.val, size |-> processed.size]) ELSE c :
            c \in ConvertedFrames(processed.image, target_format) }

\* load_frames_safely on decoded files: the possible lists of frames
RECURSIVE load_frames_safely(_, _, _)
load_frames_safely(raws, resize_to, target_format) ==
    IF raws = <<>> THEN {<<>>}
    ELSE UNION { { (IF c.ok THEN <<c.val>> ELSE <<>>) \o rest :
                     rest \in load_frames_safely(Tail(raws), resize_to, target_format) } :
                 c \in LoadBody(Head(raws), resize_to, target_format) }

\* decoded files: two sizes, upright or turned, a mode every conversion
\* takes and one the palette conversion may reject
UnitRaws ==
    {RawImage(Image(mode, White, Opaque), size, orientation) :
        mode \in {"RGB", "PA"}, size \in {<<1, 2>>, <<2, 2>>}, orientation \in {1, 6}}

UnitRawLists == UNION {[1..n -> UnitRaws] : n \in 1..MaxSelected}

UnitResizeTargets == {None, <<2, 1>>, <<3, 3>>}

\* entries directly in a folder: files of every supported extension in some
\* spelling, files of other names (.png is a hidden file without suffix),
\* and a directory with an image name
UnitFolderEntries ==
    { Entry(<<"a", ".", "p", "n", "g">>, TRUE, <<1, 1>>, TRUE, 1),
      Entry(<<"b", ".", "P", "N", "G">>, TRUE, <<1, 1>>, TRUE, 1),
      Entry(<<"c", ".", "j", "p", "g">>, TRUE, <<1, 1>>, TRUE, 1),
      Entry(<<"j", ".", "J", "P", "e", "g">>, TRUE, <<1, 1>>, TRUE, 1),
      Entry(<<"m", ".", "b", "m", "p">>, TRUE, <<1, 1>>, TRUE, 1),
      Entry(<<"t", ".", "t", "i", "f">>, TRUE, <<1, 1>>, TRUE, 1),
      Entry(<<"u", ".", "T", "I", "F", "F">>, TRUE, <<1, 1>>, TRUE, 1),
      Entry(<<"d", ".", "w", "e", "b", "p">>, TRUE, <<1, 1>>, TRUE, 1),
      Entry(<<"d", ".", "g", "i", "f">>, TRUE, <<1, 1>>, TRUE, 1),
      Entry(<<"n", ".", "t", "x", "t">>, TRUE, <<1, 1>>, TRUE, 1),
      Entry(<<".", "p", "n", "g">>, TRUE, <<1, 1>>, TRUE, 1),
      Entry(<<"x", ".", "p", "n", "g", ".", "b", "a", "k">>, TRUE, <<1, 1>>, TRUE, 1),
      Entry(<<"p", "n", "g">>, TRUE, <<1, 1>>, TRUE, 1),
      Entry(e_png, FALSE, None, FALSE, 1) }

\* a subdirectory with an image file in it
UnitSubfolder ==
    { Entry(<<"s">>, FALSE, None, FALSE, 1),
      Entry(<<"s", "/", "f", ".", "p", "n", "g">>, TRUE, <<1, 1>>, TRUE, 1) }

\* folders of up to two direct entries, with or without the subdirectory
UnitFolders ==
    { direct \cup below : direct \in {S \in SUBSET UnitFolderEntries : Cardinality(S) <= 2},
                          below \in {{}, UnitSubfolder} }

\* File handles.  The three functions that open image files do it in
\*     try: with Image.open(img_path) as im: <body>  except Exception: ...
\* inside a loop over paths (the loop of the caller for get_image_size and
\* has_alpha_channel).  A walk is that loop: next is the position in paths,
\* handles the set of open files, inside whether control is in a with body,
\* frames what load_frames_safely has appended.
Walk(next, handles, inside, frames) ==
    [next |-> next, handles |-> handles, inside |-> inside, frames |-> frames]

\* Image.open(img_path): a handle on the file, or an exception and no handle
ImageOpen(d, w, img_path) ==
    IF get_image_size(d, img_path) # None
    THEN [w EXCEPT !.handles = @ \cup {img_path}, !.inside = TRUE]
    ELSE [w EXCEPT !.next = @ + 1]

\* whether the with body raises: the bodies of get_image_size and
\* has_alpha_channel read an attribute, the body of load_frames_safely decodes
BodyRaises(d, function, img_path) ==
    function = "load_frames_safely" /\ ~Loads(d, img_path)

\* the frame appended: processed_image.copy(), pixel data in memory, no file
CopiedFrame(img_path) == [src |-> img_path, file |-> None]

WithExitOnSuccessOnly(d, w, function, img_path) ==
    IF BodyRaises(d, function, img_path)
    THEN [w EXCEPT !.inside = FALSE, !.next = @ + 1]
    ELSE [w EXCEPT !.handles = @ \ {img_path}, !.inside = FALSE, !.next = @ + 1,
                   !.frames = IF function = "load_frames_safely"
                              THEN Append(@, CopiedFrame(img_path)) ELSE @]

\* the end of the with block: the handle is closed whether the body ran
\* through or raised; load_frames_safely has appended the copy before
WithExit(d, w, function, img_path) ==
    IF BodyRaises(d, function, img_path)
    THEN [w EXCEPT !.handles = @ \ {img_path}, !.inside = FALSE, !.next = @ + 1]
    ELSE [w EXCEPT !.handles = @ \ {img_path}, !.inside = FALSE, !.next = @ + 1,
                   !.frames = IF function = "load_frames_safely"
                              THEN Append(@, CopiedFrame(img_path)) ELSE @]

UnitOpeners == {"get_image_size", "has_alpha_channel", "load_frames_safely"}

\* folders and the paths walked in them: files that decode, a file that
\* opens and does not decode, files that do not open
UnitWalks ==
    { [d |-> DirTwoGroups, paths |-> <<a_png, b_PNG, c_jpg>>],
      [d |-> DirTwoGroups, paths |-> <<b_PNG>>],
      [d |-> DirUnreadable, paths |-> <<a_png, e_png>>],
      [d |-> DirTaken, paths |-> <<a_png, PlainName(webp)>>] }

UnitNames == {a_png, b_PNG, c_jpg, e_png}

UnitSizes == {None, <<1, 1>>, <<2, 1>>}

\* directories of image files for group_by_dimensions
UnitImageDirs ==
    { {Entry(n, TRUE, size[n], TRUE, 1) : n \in UnitNames} : size \in [UnitNames -> UnitSizes] }

OutputNames(ext) == {PlainName(ext)} \cup {CandidateName(i, ext) : i \in 1..MaxSuffix}

\* directories in which some output names are taken
UnitTakenDirs ==
    { {Entry(n, TRUE, <<1, 1>>, TRUE, 1) : n \in taken} :
        taken \in SUBSET (OutputNames(gif) \cup OutputNames(webp)) }

UnitSortNames == {a_png, b_PNG, c_jpg}

\* st_ctime values; NoCtime stands for a stat() that raises
NoCtime == 0 - 1

UnitCtimes == {NoCtime, 1, 2, 3}

\* directories of image files for sort_by_ctime
UnitSortDirs ==
    { {Entry(n, TRUE, <<1, 1>>, TRUE, ctime[n]) : n \in UnitSortNames} :
        ctime \in [UnitSortNames -> UnitCtimes] }

\* the lists of one group: some of the files, in some discovery order
UnitSortLists == UNION {Orderings(S) : S \in (SUBSET UnitSortNames) \ {{}}}

InitUnit ==
    /\ run = [p \in Procs |-> IdleRun]
    /\ nruns = 0
    /\ ret = <<>>
    /\ \/ /\ dir \in UnitImageDirs
          /\ arg \in [fn : {"group_by_dimensions"}, paths : Orderings(UnitNames)]
       \/ /\ dir \in UnitTakenDirs
          /\ arg \in [fn : {"unique_output_path"}, ext : {gif, webp}, overwrite : BOOLEAN]
       \/ /\ dir \in UnitSortDirs
          /\ arg \in [fn : {"sort_by_ctime"}, paths : UnitSortLists]
       \/ /\ dir = {}
          /\ arg \in [fn : {"save_animation"}, fps : UnitFps]
       \/ \E walk \in UnitWalks :
              /\ dir = walk.d
              /\ arg \in [fn : {"with_image_open"}, function : UnitOpeners,
                          paths : {walk.paths}]
       \/ /\ dir \in UnitFolders
          /\ arg \in [fn : {"discover_images"}]
       \/ /\ dir = {}
          /\ arg \in [fn : {"load_frames_safely_sizes"}, raws : UnitRawLists,
                      resize_to : UnitResizeTargets, target_format : {gif, webp}]
       \/ /\ dir \in {{}, {Entry(PlainName(gif), TRUE, <<1, 1>>, TRUE, 1)}}
          /\ arg \in [fn : {"save_animation_file"}, frames : UnitFrameLists,
                      fps : {DEFAULT_FPS, MAX_FPS},
                      fmt : {gif, webp, <<"G", "I", "F">>, <<"p", "n", "g">>}]
       \/ /\ dir = {}
          /\ arg \in [fn : {"load_frames_safely"}, image : UnitImages,
                      target_format : {gif, webp, <<"G", "I", "F">>}]

NamesIn(d) == {f.name : f \in d}

CallGroupByDimensions ==
    /\ arg.fn = "group_by_dimensions"
    /\ ret = <<>>
    /\ ret' = <<group_by_dimensions(dir, arg.paths)>>
    /\ UNCHANGED <<dir, run, nruns, arg>>

\* a call; seen is the set of names in the directory at the time of the call
CallUniqueOutputPath ==
    /\ arg.fn = "unique_output_path"
    /\ Len(ret) < MaxCalls
    /\ ret' = Append(ret, [path |-> unique_output_path(dir, arg.ext, arg.overwrite),
                           seen |-> NamesIn(dir)])
    /\ UNCHANGED <<dir, run, nruns, arg>>

\* the caller writes a file at the path the last call returned
WriteReturned ==
    /\ arg.fn = "unique_output_path"
    /\ ret # <<>>
    /\ ~Exists(dir, ret[Len(ret)].path)
    /\ dir' = dir \cup {Entry(ret[Len(ret)].path, TRUE, <<1, 1>>, TRUE, 9)}
    /\ UNCHANGED <<run, nruns, arg, ret>>

\* a call of sort_by_ctime on the list, with either value of reverse
CallSortByCtime(reverse) ==
    /\ arg.fn = "sort_by_ctime"
    /\ Len(ret) < MaxCalls
    /\ ret' = Append(ret, [reverse |-> reverse,
                           sorted |-> sort_by_ctime(dir, arg.paths, reverse)])
    /\ UNCHANGED <<dir, run, nruns, arg>>

\* one image through the conversions of load_frames_safely
CallConvert ==
    /\ arg.fn = "load_frames_safely"
    /\ ret = <<>>
    /\ \E frame \in ConvertedFrames(arg.image, arg.target_format) : ret' = <<frame>>
    /\ UNCHANGED <<dir, run, nruns, arg>>

\* the duration save_animation computes for the frame rate
CallDuration ==
    /\ arg.fn = "save_animation"
    /\ ret = <<>>
    /\ ret' = <<duration_ms(arg.fps)>>
    /\ UNCHANGED <<dir, run, nruns, arg>>

\* the loop over the paths is entered
CallOpener ==
    /\ arg.fn = "with_image_open"
    /\ ret = <<>>
    /\ ret' = <<Walk(1, {}, FALSE, <<>>)>>
    /\ UNCHANGED <<dir, run, nruns, arg>>

\* the next path is opened
OpenNext ==
    /\ arg.fn = "with_image_open"
    /\ ret # <<>>
    /\ ~ret[1].inside
    /\ ret[1].next <= Len(arg.paths)
    /\ ret' = <<ImageOpen(dir, ret[1], arg.paths[ret[1].next])>>
    /\ UNCHANGED <<dir, run, nruns, arg>>

\* the with body ends, by its last statement or by an exception
LeaveWith ==
    /\ arg.fn = "with_image_open"
    /\ ret # <<>>
    /\ ret[1].inside
    /\ ret' = <<WithExit(dir, ret[1], arg.function, arg.paths[ret[1].next])>>
    /\ UNCHANGED <<dir, run, nruns, arg>>

\* a call of discover_images on the folder
CallDiscoverImages ==
    /\ arg.fn = "discover_images"
    /\ ret = <<>>
    /\ \E listing \in Listings(dir) : ret' = <<discover_images(dir, listing)>>
    /\ UNCHANGED <<dir, run, nruns, arg>>

\* a call of load_frames_safely; an empty list stands for the ValueError
CallLoadFrames ==
    /\ arg.fn = "load_frames_safely_sizes"
    /\ ret = <<>>
    /\ \E frames \in load_frames_safely(arg.raws, arg.resize_to, arg.target_format) :
          ret' = <<[frames |-> frames]>>
    /\ UNCHANGED <<dir, run, nruns, arg>>

\* a call of save_animation with out_path the plain output name of the format
CallSaveAnimation ==
    /\ arg.fn = "save_animation_file"
    /\ ret = <<>>
    /\ \E res \in save_animation(arg.frames, PlainName(Lower(arg.fmt)), arg.fps, arg.fmt) :
          /\ ret' = <<res>>
          /\ dir' = IF res.raised THEN dir
                    ELSE Replace(dir, Entry(res.file.name, TRUE, <<1, 1>>, TRUE, 9))
    /\ UNCHANGED <<run, nruns, arg>>

NextUnit ==
    \/ CallGroupByDimensions
    \/ CallUniqueOutputPath
    \/ WriteReturned
    \/ \E reverse \in BOOLEAN : CallSortByCtime(reverse)
    \/ CallConvert
    \/ CallDuration
    \/ CallOpener
    \/ OpenNext
    \/ LeaveWith
    \/ CallDiscoverImages
    \/ CallLoadFrames
    \/ CallSaveAnimation

SpecUnit == InitUnit /\ [][NextUnit]_vars

(***************************************************************************)
(* The claims.                                                             *)
(***************************************************************************)
Count(seq, x) == Cardinality({i \in 1..Len(seq) : seq[i] = x})

Elements(seq) == {seq[i] : i \in 1..Len(seq)}

\* what the file at p decodes to, read off the directory itself
TrueSize(d, p) == (CHOOSE f \in d : f.name = p).size

RECURSIVE Total(_, _)
\* how often p is listed in the groups, all groups together
Total(groups, p) ==
    IF groups = <<>> THEN 0 ELSE Count(Head(groups).files, p) + Total(Tail(groups), p)

\* C1: group_by_dimensions returns a mapping (no key twice) in which every
\* file under key (w, h) decodes to exactly (w, h), every decodable input is
\* listed once in all, every file whose size cannot be read is listed nowhere,
\* and each group lists its files in the order of the input.
C1_GroupsPartitionBySize ==
    (arg.fn = "group_by_dimensions" /\ ret # <<>>) =>
        LET groups == ret[1]
            paths == arg.paths
        IN  /\ \A i, j \in 1..Len(groups) : i # j => groups[i].wh # groups[j].wh
            /\ \A i \in 1..Len(groups) :
                  /\ groups[i].files # <<>>
                  /\ \A k \in 1..Len(groups[i].files) :
                        TrueSize(dir, groups[i].files[k]) = groups[i].wh
                  /\ \A k, l \in 1..Len(groups[i].files) :
                        k < l => IndexOf(paths, groups[i].files[k])
                                    < IndexOf(paths, groups[i].files[l])
            /\ \A p \in Elements(paths) :
                  Total(groups, p) = IF TrueSize(dir, p) # None THEN 1 ELSE 0

\* C1, witness: two groups, one of them with two files, and an unreadable file
C1_Witness ==
    /\ arg.fn = "group_by_dimensions" /\ ret # <<>>
    /\ Len(ret[1]) = 2
    /\ Len(ret[1][1].files) = 2
    /\ \E p \in Elements(arg.paths) : TrueSize(dir, p) = None

\* the i of a returned name <base>_<i>.<ext>, 0 for <base>.<ext>
SuffixOf(path, ext) ==
    IF path = PlainName(ext) THEN 0
    ELSE CHOOSE i \in 1..(MaxSuffix + MaxCalls + 1) : path = CandidateName(i, ext)

IsOutputName(path, ext) ==
    path = PlainName(ext) \/ \E i \in 1..(MaxSuffix + MaxCalls + 1) : path = CandidateName(i, ext)

\* C2: with overwrite=false unique_output_path returns a name no file has at
\* the time of the call: <dirname>.<ext> when that is free, otherwise
\* <dirname>_<i>.<ext> for the smallest i >= 1 whose name is free, found after
\* at most as many probes as the directory has entries (it terminates); equal
\* directory states give equal results; with overwrite=true it returns
\* <dirname>.<ext> whether or not that file exists.
C2_UniqueOutputPath ==
    arg.fn = "unique_output_path" =>
        \A k \in 1..Len(ret) :
            LET path == ret[k].path
                seen == ret[k].seen
            IN  /\ IsOutputName(path, arg.ext)
                /\ arg.overwrite => path = PlainName(arg.ext)
                /\ ~arg.overwrite =>
                      /\ path \notin seen
                      /\ PlainName(arg.ext) \notin seen => path = PlainName(arg.ext)
                      /\ PlainName(arg.ext) \in seen =>
                            /\ SuffixOf(path, arg.ext) >= 1
                            /\ SuffixOf(path, arg.ext) <= Cardinality(seen)
                            /\ \A j \in 1..(SuffixOf(path, arg.ext) - 1) :
                                  CandidateName(j, arg.ext) \in seen
                /\ \A l \in 1..Len(ret) : ret[l].seen = seen => ret[l].path = path

\* C2, witness: the plain name and _1 are taken and _2 is returned
C2_Witness ==
    /\ arg.fn = "unique_output_path" /\ ~arg.overwrite
    /\ \E k \in 1..Len(ret) : ret[k].path = CandidateName(2, arg.ext)

\* C3: without --overwrite no run writes onto a file that exists at the moment
\* save_animation writes, also when the file appeared after the existence
\* check of unique_output_path.
C3_NeverWritesOntoExisting ==
    \A p \in Procs : ~run[p].overwrite => run[p].clobbered = {}

\* whether both names were free before the first of two calls
FreshForTwo == ret[1].seen \cap {PlainName(arg.ext), CandidateName(1, arg.ext)} = {}

\* C4 as stated: two calls in a row with overwrite=false, in a directory where
\* both names are free, return name.ext and then name_1.ext.
C4_TwoCallsInARowDiffer ==
    (arg.fn = "unique_output_path" /\ ~arg.overwrite /\ Len(ret) = 2 /\ FreshForTwo) =>
        /\ ret[1].path = PlainName(arg.ext)
        /\ ret[2].path = CandidateName(1, arg.ext)

\* C4, amended: when a file was written at the first returned path before the
\* second call, the two names differ and the second is free at its call, and
\* they are name.ext and name_1.ext when both were free at first; when nothing
\* changed in the directory between the calls, the second call returns the
\* first name again.
C4_TwoCallsWithWriteBetween ==
    (arg.fn = "unique_output_path" /\ ~arg.overwrite /\ Len(ret) = 2) =>
        /\ ret[2].seen = ret[1].seen \cup {ret[1].path} =>
              /\ ret[2].path # ret[1].path
              /\ ret[2].path \notin ret[2].seen
              /\ FreshForTwo => /\ ret[1].path = PlainName(arg.ext)
                                /\ ret[2].path = CandidateName(1, arg.ext)
        /\ ret[2].seen = ret[1].seen => ret[2].path = ret[1].path

\* C4, witness: name.ext returned and written, then name_1.ext returned
C4_Witness ==
    /\ arg.fn = "unique_output_path" /\ ~arg.overwrite /\ Len(ret) = 2
    /\ FreshForTwo
    /\ ret[2].seen = ret[1].seen \cup {ret[1].path}
    /\ ret[2].path = CandidateName(1, arg.ext)

\* a regular file with a supported image extension that can be opened
DecodableImage(f) ==
    f.is_file /\ Lower(PathSuffix(f.name)) \in SUPPORTED_EXTS /\ f.size # None

\* main has not read any flag but those Start fixes, asked nothing, opened
\* nothing and written nothing
NothingDone(r) ==
    /\ r.group = NotGiven /\ r.choice = <<>> /\ r.selected_wh = None
    /\ ~r.interactive_mode /\ r.selected_files = <<>> /\ r.ordered = <<>>
    /\ r.prompts = {} /\ r.opened = <<>> /\ r.frames = <<>> /\ r.wrote = {}

\* C5: in a directory with no decodable file of a supported extension the run
\* ends with exit code 1 before any selection, prompt, load or write, whatever
\* the flags, and the directory is left as it was.
C5_NoImagesExitsOne ==
    (\A f \in dir : ~DecodableImage(f)) =>
        /\ dir \in InitDirs
        /\ \/ run[1].pc \in {"idle", "discover"}
           \/ run[1].pc = "done" /\ run[1].exit_code = 1 /\ ~run[1].traceback
        /\ NothingDone(run[1])

\* C5, witness: images were found, none could be opened, exit code 1 under
\* --non-interactive
C5_Witness ==
    /\ run[1].pc = "done" /\ run[1].exit_code = 1
    /\ run[1].images # <<>> /\ run[1].non_interactive

\* text that is a whole number, as a reader takes it
ReadsAsNumber(t) == IntOf(t).ok

\* text of the form <integer>x<integer>, and the pair it names
ReadsAsPair(t) ==
    /\ Contains(Lower(t), "x")
    /\ IntOf(SubSeq(Lower(t), 1, IndexOf(Lower(t), "x") - 1)).ok
    /\ IntOf(SubSeq(Lower(t), IndexOf(Lower(t), "x") + 1, Len(t))).ok

PairOf(t) ==
    <<IntOf(SubSeq(Lower(t), 1, IndexOf(Lower(t), "x") - 1)).val,
      IntOf(SubSeq(Lower(t), IndexOf(Lower(t), "x") + 1, Len(t))).val>>

\* the sizes of the decodable images the run discovered
TrueKeys(r) == {TrueSize(dir, r.images[i]) : i \in 1..Len(r.images)} \ {None}

\* a --group value that is a number outside 1..(number of groups), a
\* WIDTHxHEIGHT that is the key of no group, or neither
BadSelector(r, t) ==
    \/ ReadsAsNumber(t) /\ ~(1 <= IntOf(t).val /\ IntOf(t).val <= Cardinality(TrueKeys(r)))
    \/ ~ReadsAsNumber(t) /\ ReadsAsPair(t) /\ PairOf(t) \notin TrueKeys(r)
    \/ ~ReadsAsNumber(t) /\ ~ReadsAsPair(t)

PastSelect(r) == r.pc \notin {"idle", "discover", "select"}

RejectedAsUsage(r) ==
    /\ r.pc = "done" /\ r.exit_code = 2 /\ ~r.traceback
    /\ r.opened = <<>> /\ r.frames = <<>> /\ r.wrote = {}

\* C6 as stated: every such --group value ends the run with exit code 2, with
\* no unhandled exception, no frame loaded and no file written.
C6_BadGroupExitsTwo ==
    (PastSelect(run[1]) /\ run[1].group.given /\ BadSelector(run[1], run[1].group.val))
        => RejectedAsUsage(run[1])

\* C6, amended: every such non-empty --group value, other than '0' in the flor
\* variant, ends the run with exit code 2, with no unhandled exception, no
\* frame loaded and no file written; '0' in the flor variant enters the manual
\* selection; an empty --group value is taken as no --group.
C6_BadGroupExitsTwoButZero ==
    LET r == run[1]
        zero == r.variant = "flor" /\ r.group.val = <<"0">>
    IN  (PastSelect(r) /\ r.group.given) =>
            /\ (r.group.val # <<>> /\ ~zero /\ BadSelector(r, r.group.val)) => RejectedAsUsage(r)
            /\ zero => r.interactive_mode
            /\ r.group.val = <<>> =>
                  \/ r.non_interactive /\ RejectedAsUsage(r)
                  \/ ~r.non_interactive /\ "group" \in r.prompts

\* C6, witness: the soul variant rejects '0', with two groups discovered
C6_Witness ==
    /\ run[1].variant = "soul" /\ run[1].group = Opt(<<"0">>)
    /\ Len(run[1].groups) = 2
    /\ RejectedAsUsage(run[1])

Area(wh) == wh[1] * wh[2]

\* (area, width, height) of a before that of b, larger first
Before(a, b) ==
    \/ Area(a) > Area(b)
    \/ Area(a) = Area(b) /\ a[1] > b[1]
    \/ Area(a) = Area(b) /\ a[1] = b[1] /\ a[2] > b[2]

\* the selector main resolved: --group, or the answer at the prompt
SelectorText(r) == IF Truthy(r.group) THEN r.group.val ELSE r.choice

AllAsciiDigits(t) == t # <<>> /\ \A i \in 1..Len(t) : IsAsciiDigit(t[i])

\* the discovered files of size wh, in discovery order
RECURSIVE FilesOfSize(_, _)
FilesOfSize(images, wh) ==
    IF images = <<>> THEN <<>>
    ELSE (IF TrueSize(dir, Head(images)) = wh THEN <<Head(images)>> ELSE <<>>)
         \o FilesOfSize(Tail(images), wh)

\* C7: the groups are numbered from 1 by descending area, then width, then
\* height, whatever the discovery order; ordinal i selects exactly the i-th
\* group of that order, ordinal 1 a group of maximal area, and WIDTHxHEIGHT
\* exactly the group of that key.
C7_GroupNumbering ==
    LET r == run[1]
        n == Len(r.sizes_sorted)
        t == SelectorText(r)
    IN  (PastSelect(r) /\ dir \in InitDirs) =>
            /\ Elements(r.sizes_sorted) = TrueKeys(r)
            /\ \A i, j \in 1..n : i < j => Before(r.sizes_sorted[i], r.sizes_sorted[j])
            /\ (r.selected_wh # None /\ ~r.interactive_mode) =>
                  /\ r.selected_files = FilesOfSize(r.images, r.selected_wh)
                  /\ AllAsciiDigits(t) =>
                        /\ IntOf(t).val \in 1..n
                        /\ r.selected_wh = r.sizes_sorted[IntOf(t).val]
                        /\ IntOf(t).val = 1 =>
                              \A k \in TrueKeys(r) : Area(r.selected_wh) >= Area(k)
                  /\ ~AllAsciiDigits(t) => ReadsAsPair(t) /\ r.selected_wh = PairOf(t)
            /\ (AllAsciiDigits(t) /\ IntOf(t).val \in 1..n) =>
                  r.selected_wh = r.sizes_sorted[IntOf(t).val]
            /\ (~AllAsciiDigits(t) /\ ReadsAsPair(t) /\ PairOf(t) \in TrueKeys(r)) =>
                  r.selected_wh = PairOf(t)

\* C7, witness: two groups of equal area discovered narrow one first, and
\* ordinal 2 selected the narrow one
C7_Witness ==
    /\ run[1].pc = "prefs"
    /\ GroupKeys(run[1].groups) = <<<<1, 2>>, <<2, 1>>>>
    /\ SelectorText(run[1]) = <<"2">>
    /\ run[1].selected_wh = <<1, 2>>

\* C8: under --non-interactive the run never asks anything.
C8_NonInteractiveNeverPrompts ==
    run[1].non_interactive => run[1].prompts = {}

\* the three ways a resize string is malformed
MissingX(t) == \A i \in 1..Len(t) : t[i] \notin {"x", "X"}

FirstX(t) == CHOOSE i \in 1..Len(t) : t[i] \in {"x", "X"} /\ \A j \in 1..(i - 1) : t[j] \notin {"x", "X"}

WidthText(t) == Strip(SubSeq(t, 1, FirstX(t) - 1))

HeightText(t) == Strip(SubSeq(t, FirstX(t) + 1, Len(t)))

NonIntegerPart(t) == ~MissingX(t) /\ (~IntOf(WidthText(t)).ok \/ ~IntOf(HeightText(t)).ok)

NonPositivePart(t) ==
    /\ ~MissingX(t) /\ ~NonIntegerPart(t)
    /\ (IntOf(WidthText(t)).val <= 0 \/ IntOf(HeightText(t)).val <= 0)

Malformed(t) == MissingX(t) \/ NonIntegerPart(t) \/ NonPositivePart(t)

\* the run took a non-empty answer at the resize prompt
TypedResize(r) == "resize" \in r.prompts /\ r.resize_input # <<>>

\* C9 as stated: a malformed resize string, from --resize or typed at the
\* prompt, ends the run with exit code 2 and no file written.
C9_MalformedResizeExitsTwo ==
    LET r == run[1]
    IN  ((r.resize.given /\ Malformed(r.resize.val))
            \/ (TypedResize(r) /\ Malformed(r.resize_input)))
        => RejectedAsUsage(r)

\* C9, amended: a non-empty malformed --resize value ends the run with exit
\* code 2, no frame loaded and no file written, once the run has its group;
\* a malformed string typed at the resize prompt is dropped: the run goes on,
\* with the size of a valid --resize if there is one and with the original
\* dimensions otherwise; an empty --resize value is taken as no --resize.
C9_MalformedResizeFlagExitsTwo ==
    LET r == run[1]
    IN  /\ (r.resize.given /\ r.resize.val # <<>> /\ Malformed(r.resize.val))
              => RejectedAsUsage(r)
        /\ (TypedResize(r) /\ Malformed(r.resize_input) /\ ~Malformed(r.resize.val))
              => /\ r.resize_to = parse_whxhh(r.resize.val).val
                 /\ ~(r.pc = "done" /\ r.exit_code = 2)
        /\ (TypedResize(r) /\ Malformed(r.resize_input) /\ ~Truthy(r.resize))
              => /\ r.resize_to = None
                 /\ ~(r.pc = "done" /\ r.exit_code = 2)
        /\ (r.resize = Opt(<<>>) /\ ~TypedResize(r))
              => r.resize_to = None /\ ~(r.pc = "done" /\ r.exit_code = 2)

\* C9, witness: --resize 0x1 rejected after a group was selected and the
\* preferences were asked
C9_Witness ==
    /\ run[1].resize = Opt(<<"0", "x", "1">>)
    /\ run[1].selected_wh # None
    /\ "resize" \in run[1].prompts
    /\ RejectedAsUsage(run[1])

\* the paths of s that load, in the order of s
RECURSIVE LoadableOf(_)
LoadableOf(s) ==
    IF s = <<>> THEN <<>>
    ELSE (IF Loads(dir, Head(s)) THEN <<Head(s)>> ELSE <<>>) \o LoadableOf(Tail(s))

\* C10: load_frames_safely opens each path once, in list order, and never
\* again; the frames are the paths that loaded, in input order; frames plus
\* failures is the number of paths opened; a failure does not stop the pass;
\* the call returns frames exactly when at least one path loaded, and raises
\* (exit code 3) when none did.
C10_SinglePassLoad ==
    LET r == run[1]
    IN  dir \in InitDirs =>
            /\ Len(r.opened) <= Len(r.ordered)
            /\ r.opened = SubSeq(r.ordered, 1, Len(r.opened))
            /\ [i \in 1..Len(r.frames) |-> r.frames[i].src] = LoadableOf(r.opened)
            /\ Len(r.frames) + r.failed_count = Len(r.opened)
            /\ r.pc = "save" => r.opened = r.ordered /\ r.frames # <<>>
            /\ (r.pc = "done" /\ r.opened # <<>>) =>
                  /\ r.opened = r.ordered
                  /\ r.frames = <<>> => r.exit_code = 3 /\ ~r.traceback /\ r.wrote = {}
                  /\ LoadableOf(r.ordered) # <<>> => r.frames # <<>>

\* C10, witness: the first path failed, the second one loaded, and the call
\* returned one frame
C10_Witness ==
    /\ run[1].pc = "save"
    /\ Len(run[1].ordered) = 2
    /\ ~Loads(dir, run[1].ordered[1])
    /\ run[1].failed_count = 1
    /\ Len(run[1].frames) = 1

\* load_frames_safely went through the whole selection and kept no frame
NoValidFrames(r) == r.pc = "done" /\ r.opened # <<>> /\ r.frames = <<>>

\* save_animation was called: the run ended with frames in hand
AfterSave(r) == r.pc = "done" /\ r.frames # <<>>

\* save_animation raised: the complete animation of this run is not at out_path
SaveRaised(r) ==
    /\ AfterSave(r)
    /\ ~Exists(dir, r.out_path) \/ FileAt(dir, r.out_path) # Written(r)

\* C11: when every selected file fails to load, and when save_animation
\* raises, the run ends with exit code 3; with no valid frame save_animation
\* is never reached and nothing is written.
C11_LoadOrSaveFailureExitsThree ==
    LET r == run[1]
    IN  /\ r.pc = "save" => r.frames # <<>>
        /\ NoValidFrames(r) =>
              /\ r.exit_code = 3 /\ ~r.traceback
              /\ r.opened = r.ordered
              /\ r.wrote = {} /\ dir \in InitDirs
        /\ SaveRaised(r) => r.exit_code = 3 /\ ~r.traceback
        /\ (AfterSave(r) /\ ~SaveRaised(r)) => r.exit_code = 0

\* C11, witness: the only file of the selected group could not be loaded
C11_Witness ==
    /\ NoValidFrames(run[1])
    /\ run[1].exit_code = 3
    /\ ~run[1].interactive_mode

\* C11, the other case reached: save_animation raised after its file was opened
C11_SaveRaisedReached ==
    /\ SaveRaised(run[1])
    /\ run[1].wrote # {}

\* the entries of d other than the one named n
Others(d, n) == {f \in d : f.name # n}

\* the run ended without calling save_animation: exit 1 or 2, no valid
\* frame, dry run, cancelled, or an uncaught exception
EndedBeforeSave(r) == r.pc = "done" /\ r.frames = <<>>

\* the run reached the success report
Succeeded(r) == r.pc = "done" /\ r.exit_code = 0 /\ r.frames # <<>>

\* the run planned its output in directory d0 and left it untouched but for
\* the file at out_path
TouchedOnlyOutPath(r, d0) ==
    /\ r.out_path = unique_output_path(d0, Lower(r.final_fmt), r.overwrite)
    /\ Others(dir, r.out_path) = Others(d0, r.out_path)

\* C12 as stated: a run that ends with 1, 2 or 3, a dry run and a cancelled
\* run write nothing and leave the directory as it was; a successful run has
\* written exactly one file, at the path unique_output_path returned.
C12_WritesOnlyOnSuccess ==
    LET r == run[1]
    IN  /\ Cardinality(r.wrote) <= 1
        /\ (r.pc = "done" /\ (r.exit_code \in {1, 2, 3} \/ EndedBeforeSave(r)))
              => r.wrote = {} /\ dir \in InitDirs
        /\ Succeeded(r) =>
              /\ r.wrote = {r.out_path}
              /\ Exists(dir, r.out_path) /\ FileAt(dir, r.out_path) = Written(r)
              /\ \E d0 \in InitDirs : TouchedOnlyOutPath(r, d0)

\* C12, amended: a run touches at most one path, the one unique_output_path
\* returned.  A run that ends before save_animation (exit code 1 or 2, no
\* valid frame, dry run, cancelled) writes nothing and leaves the directory
\* as it was; a run in which save_animation raised ends with 3 and leaves
\* at that path what was there, or a partial file; a successful run has
\* written exactly one complete file there.
C12_WritesOnlyAtOutPath ==
    LET r == run[1]
    IN  /\ Cardinality(r.wrote) <= 1
        /\ r.pc # "done" => r.wrote = {} /\ dir \in InitDirs
        /\ EndedBeforeSave(r) => r.wrote = {} /\ dir \in InitDirs
        /\ (r.pc = "done" /\ r.exit_code \in {1, 2}) => EndedBeforeSave(r)
        /\ SaveRaised(r) =>
              /\ r.exit_code = 3
              /\ r.wrote \subseteq {r.out_path}
              /\ \E d0 \in InitDirs :
                    /\ TouchedOnlyOutPath(r, d0)
                    /\ \/ dir = d0
                       \/ Exists(dir, r.out_path) /\ FileAt(dir, r.out_path) = Partial(r)
        /\ Succeeded(r) =>
              /\ r.wrote = {r.out_path}
              /\ Exists(dir, r.out_path) /\ FileAt(dir, r.out_path) = Written(r)
              /\ \E d0 \in InitDirs : TouchedOnlyOutPath(r, d0)

\* C12, witness: a successful run beside two earlier animations of its format
C12_Witness ==
    /\ Succeeded(run[1])
    /\ run[1].wrote = {CandidateName(2, gif)}
    /\ Cardinality(dir) = 5

\* C13: with --dry-run, once the selection and the resize value are
\* accepted, the run shows the plan and ends with exit code 0: no frame is
\* loaded, nothing is asked after the plan, and no file is created, modified
\* or deleted, for both formats and with or without --overwrite.
C13_DryRunTouchesNothing ==
    LET r == run[1]
    IN  r.dry_run =>
            /\ r.pc = "done" /\ r.exit_code = 0 /\ ~r.traceback
            /\ r.ordered # <<>>
            /\ r.final_fmt \in {gif, webp}
            /\ r.out_path = unique_output_path(dir, Lower(r.final_fmt), r.overwrite)
            /\ r.opened = <<>> /\ r.frames = <<>> /\ r.failed_count = 0
            /\ "confirm" \notin r.prompts
            /\ r.wrote = {} /\ r.clobbered = {}
            /\ dir \in InitDirs

\* C13, witness: a dry run with --overwrite whose planned output exists
C13_Witness ==
    /\ run[1].dry_run /\ run[1].overwrite
    /\ run[1].pc = "done" /\ run[1].exit_code = 0
    /\ run[1].final_fmt = webp
    /\ Exists(dir, run[1].out_path)
    /\ run[1].resize_to # None

\* the calls of sort_by_ctime made so far
SortCalls == IF arg.fn = "sort_by_ctime" THEN 1..Len(ret) ELSE {}

CtimeOf(n) == FileAt(dir, n).ctime

AllCtimesRead(paths) == \A i \in 1..Len(paths) : CtimeOf(paths[i]) # NoCtime

\* the lower-cased name of a is not after that of b
NameNotAfter(a, b) == ~LexLess(NameKey(b), NameKey(a))

\* C14: sort_by_ctime returns a permutation of the group's files, in
\* non-decreasing creation time (non-increasing with reverse); when the
\* creation time of any file cannot be read the whole list is in the order of
\* the lower-cased names instead (descending with reverse).
C14_SortByCtime ==
    \A c \in SortCalls :
        LET out == ret[c].sorted
            n == Len(out)
        IN  /\ n = Len(arg.paths)
            /\ \A f \in UnitSortNames : Count(out, f) = Count(arg.paths, f)
            /\ AllCtimesRead(arg.paths) =>
                  \A i, j \in 1..n : i < j =>
                      IF ret[c].reverse THEN CtimeOf(out[i]) >= CtimeOf(out[j])
                      ELSE CtimeOf(out[i]) <= CtimeOf(out[j])
            /\ ~AllCtimesRead(arg.paths) =>
                  \A i, j \in 1..n : i < j =>
                      IF ret[c].reverse THEN NameNotAfter(out[j], out[i])
                      ELSE NameNotAfter(out[i], out[j])

\* C14, witness: three files, the creation time of the one first by name and
\* latest in the list cannot be read, and the result is in name order
C14_Witness ==
    /\ arg.fn = "sort_by_ctime" /\ ret # <<>>
    /\ arg.paths = <<c_jpg, b_PNG, a_png>>
    /\ CtimeOf(a_png) = NoCtime /\ CtimeOf(b_PNG) = 2 /\ CtimeOf(c_jpg) = 1
    /\ ~ret[1].reverse
    /\ ret[1].sorted = <<a_png, b_PNG, c_jpg>>

PairwiseDistinctCtimes(paths) ==
    /\ AllCtimesRead(paths)
    /\ \A i, j \in 1..Len(paths) : i # j => CtimeOf(paths[i]) # CtimeOf(paths[j])

\* C15: on a list of at least two files with pairwise distinct creation
\* times, sort_by_ctime with reverse is the reversal of sort_by_ctime without.
C15_ReverseIsReversal ==
    \A c1, c2 \in SortCalls :
        (Len(arg.paths) >= 2 /\ PairwiseDistinctCtimes(arg.paths)
            /\ ~ret[c1].reverse /\ ret[c2].reverse)
        => \A i \in 1..Len(arg.paths) :
              ret[c2].sorted[i] = ret[c1].sorted[Len(arg.paths) + 1 - i]

\* C15, witness: three files with distinct creation times sorted both ways
C15_Witness ==
    /\ arg.fn = "sort_by_ctime" /\ Len(ret) = 2
    /\ Len(arg.paths) = 3 /\ PairwiseDistinctCtimes(arg.paths)
    /\ ~ret[1].reverse /\ ret[2].reverse
    /\ ret[1].sorted # ret[2].sorted

\* a command that is a number, and one that is 'r' and a number
IsNumberCommand(t) == AllAsciiDigits(t)

IsRemoveCommand(t) == Len(t) > 1 /\ t[1] = "r" /\ AllAsciiDigits(Tail(t))

\* list without its position k
WithoutPosition(list, k) ==
    [i \in 1..(Len(list) - 1) |-> IF i < k THEN list[i] ELSE list[i + 1]]

\* what a command makes of the selected list, with the discovered files given
Applied(list, t, discovered) ==
    IF IsNumberCommand(t) /\ IntOf(t).val \in 1..Len(discovered)
        THEN list \o <<discovered[IntOf(t).val]>>
    ELSE IF IsRemoveCommand(t) /\ IntOf(Tail(t)).val \in 1..Len(list)
        THEN WithoutPosition(list, IntOf(Tail(t)).val)
    ELSE IF t = <<"c", "l", "e", "a", "r">> THEN <<>>
    ELSE list

EndsSelection(t) == t \in {<<"d", "o", "n", "e">>, <<"q", "u", "i", "t">>}

\* C16: in manual mode every command changes the selected list as stated: a
\* number in range appends that discovered file, r<k> in range deletes
\* position k, clear empties the list, and every other command but done and
\* quit leaves the list as it is and the selection going.
C16_ManualListSemantics ==
    LET r == run[1]
    IN  "manual" \in r.prompts =>
            /\ r.selected_files = Applied(r.selected_before, r.user_input, r.images)
            /\ ~EndsSelection(r.user_input) => r.pc = "manual" /\ ~r.traceback

\* C16, the list alone: each command makes of the list what is stated
C16_ListAfterCommand ==
    "manual" \in run[1].prompts =>
        run[1].selected_files
            = Applied(run[1].selected_before, run[1].user_input, run[1].images)

\* C16, reached: a file selected twice and the first position removed
C16_RemoveReached ==
    /\ run[1].pc = "manual"
    /\ run[1].user_input = <<"r", "1">>
    /\ Len(run[1].selected_before) = 2
    /\ run[1].selected_before[1] # run[1].selected_before[2]
    /\ run[1].selected_files = <<run[1].selected_before[2]>>

\* C17: in manual mode the paths given to load_frames_safely are the list
\* the user built, in the user's order, whatever the creation times, the
\* value of --reverse and the sizes of the files.
C17_ManualOrderKept ==
    LET r == run[1]
    IN  (r.interactive_mode /\ r.pc \notin {"select", "manual"}
            /\ ~(r.pc = "done" /\ r.ordered = <<>>)) =>
            /\ r.user_input = <<"d", "o", "n", "e">>
            /\ r.selected_before # <<>>
            /\ r.selected_files = r.selected_before
            /\ r.ordered = r.selected_before
            /\ r.opened = SubSeq(r.ordered, 1, Len(r.opened))
            /\ r.pc = "save" => r.opened = r.selected_before

\* C17, witness: with --reverse, two files of different sizes, the later
\* created one first, went through load_frames_safely in that order
C17_Witness ==
    LET r == run[1]
    IN  /\ r.interactive_mode /\ r.reverse /\ r.pc = "save"
        /\ Len(r.ordered) = 2 /\ Len(r.frames) = 2
        /\ r.frames[1].size # r.frames[2].size
        /\ dir \in InitDirs
        /\ FileAt(dir, r.ordered[1]).ctime < FileAt(dir, r.ordered[2]).ctime
        /\ r.frames[1].src = r.ordered[1] /\ r.frames[2].src = r.ordered[2]

\* the frame or the exception one image gave, for a target format
ConvertCalls(fmt) ==
    IF arg.fn = "load_frames_safely" /\ Lower(arg.target_format) = fmt THEN 1..Len(ret) ELSE {}

\* modes that can carry transparency
CarriesTransparency(image) == image.mode \in {"RGBA", "LA", "PA", "P"}

\* C18: for gif, no image of a mode that can carry transparency makes the
\* conversion raise, every frame is free of transparency, and it is white
\* where the source was transparent.
C18_GifFramesOpaqueWhite ==
    \A c \in ConvertCalls(gif) :
        CarriesTransparency(arg.image) =>
            /\ ret[c].ok
            /\ ret[c].val.alpha = Opaque
            /\ arg.image.alpha = Transparent => ret[c].val.color = White

\* C18, what does hold: RGBA sources are flattened onto white, and sources
\* without transparency give opaque frames
C18_RGBAFlattenedOnWhite ==
    \A c \in ConvertCalls(gif) :
        /\ arg.image.mode = "RGBA" =>
              /\ ret[c].ok /\ ret[c].val.mode = "P" /\ ret[c].val.alpha = Opaque
              /\ arg.image.alpha = Transparent => ret[c].val.color = White
        /\ (arg.image.alpha = Opaque /\ ret[c].ok) =>
              ret[c].val.alpha = Opaque /\ ret[c].val.color = arg.image.color

\* C18, reached: a palette image with a transparent index kept it as a gif frame
C18_TransparentIndexKept ==
    /\ ConvertCalls(gif) # {}
    /\ arg.image.mode = "P" /\ arg.image.alpha = Transparent
    /\ ret[1].ok /\ ret[1].val.alpha = Transparent

\* C19 as stated: for webp every frame is RGBA, whatever the source mode.
C19_WebpFramesRGBA ==
    \A c \in ConvertCalls(webp) : ret[c].ok /\ ret[c].val.mode = "RGBA"

\* C19, amended: for webp a frame of an RGB source stays RGB and a frame of
\* any other source mode (RGBA, L, LA, P, PA) is RGBA; the colour and the
\* transparency of the source are kept.
C19_WebpFramesRGBOrRGBA ==
    \A c \in ConvertCalls(webp) :
        /\ ret[c].ok
        /\ ret[c].val.mode = IF arg.image.mode = "RGB" THEN "RGB" ELSE "RGBA"
        /\ ret[c].val.color = arg.image.color
        /\ ret[c].val.alpha = arg.image.alpha

\* C19, witness: a transparent palette image became an RGBA frame
C19_Witness ==
    /\ ConvertCalls(webp) # {}
    /\ arg.image.mode = "P" /\ arg.image.alpha = Transparent
    /\ ret[1].val.mode = "RGBA" /\ ret[1].val.alpha = Transparent

\* C20: the duration is max(1, floor(1000 / max(1, fps))) milliseconds, so at
\* least 1; for the rates --fps accepts it is floor(1000 / fps), between 16
\* and 1000, and 125 for the default rate.
C20_FrameDuration ==
    (arg.fn = "save_animation" /\ ret # <<>>) =>
        LET d == ret[1]
            rate == IF arg.fps < 1 THEN 1 ELSE arg.fps
        IN  /\ d >= 1
            /\ rate <= 1000 => d * rate <= 1000 /\ 1000 < (d + 1) * rate
            /\ rate > 1000 => d = 1
            /\ arg.fps \in 1..MAX_FPS =>
                  /\ d * arg.fps <= 1000 /\ 1000 < (d + 1) * arg.fps
                  /\ 16 <= d /\ d <= 1000
            /\ arg.fps = DEFAULT_FPS => d = 125

\* C20, witness: the highest rate --fps accepts gives 16 ms
C20_Witness ==
    /\ arg.fn = "save_animation"
    /\ arg.fps = MAX_FPS
    /\ ret = <<16>>

\* C20, reached: a rate above 1000 gives 1 ms
C20_ClampReached ==
    /\ arg.fn = "save_animation"
    /\ arg.fps = 2000
    /\ ret = <<1>>

\* ---- C21 ----------------------------------------------------------------
SaveCalls == arg.fn = "save_animation_file" /\ ret # <<>>

\* the frames as stored when every frame given is a frame of the file
OneStoredPerFrame(frames, duration) ==
    [i \in 1..Len(frames) |-> [image |-> frames[i], duration |-> duration]]

\* C21: for both formats save_animation writes one animation that holds
\* exactly the frames it was given, in the given order, every frame with the
\* same duration and with loop count 0; given an empty frame list or a format
\* other than gif/webp it raises and writes nothing.
C21_AnimationHoldsGivenFrames ==
    SaveCalls =>
        IF arg.frames # <<>> /\ arg.fmt \in {gif, webp}
        THEN /\ ~ret[1].raised
             /\ ret[1].file.loop = 0
             /\ ret[1].file.frames = OneStoredPerFrame(arg.frames, duration_ms(arg.fps))
             /\ Exists(dir, PlainName(arg.fmt))
        ELSE /\ ret[1].raised
             /\ ~(\E f \in dir : f.ctime = 9)

\* the part of C21 that does not depend on how the encoder stores repeated
\* frames: the file plays the given frames in the given order for the same
\* time each, loops forever, and nothing is written when the call raises
RECURSIVE Played(_, _)
Played(stored, duration) ==
    IF stored = <<>> THEN <<>>
    ELSE [i \in 1..(Head(stored).duration \div duration) |-> Head(stored).image]
            \o Played(Tail(stored), duration)

C21_AnimationPlaysGivenFrames ==
    SaveCalls =>
        IF arg.frames # <<>> /\ arg.fmt \in {gif, webp}
        THEN /\ ~ret[1].raised
             /\ ret[1].file.loop = 0
             /\ Played(ret[1].file.frames, duration_ms(arg.fps)) = arg.frames
             /\ \A i \in 1..Len(ret[1].file.frames) :
                    ret[1].file.frames[i].duration % duration_ms(arg.fps) = 0
        ELSE /\ ret[1].raised
             /\ ~(\E f \in dir : f.ctime = 9)

\* two equal frames in a row were stored as one frame
C21_RepeatedFrameMerged ==
    /\ SaveCalls
    /\ ~ret[1].raised
    /\ Len(ret[1].file.frames) < Len(arg.frames)

\* a call that raised for the format
C21_UnsupportedFormatRaised ==
    /\ SaveCalls
    /\ arg.frames # <<>>
    /\ ret[1].raised

\* ---- C22 ----------------------------------------------------------------
LoadCalls == arg.fn = "load_frames_safely_sizes" /\ ret # <<>>

\* the sizes of the orientation-corrected sources, in order
RECURSIVE CorrectedSizes(_)
CorrectedSizes(raws) ==
    IF raws = <<>> THEN <<>>
    ELSE LET raw == Head(raws)
             size == IF raw.orientation \in 5..8 THEN <<raw.size[2], raw.size[1]>>
                     ELSE raw.size
         IN  <<size>> \o CorrectedSizes(Tail(raws))

\* sub is seq with some elements left out
RECURSIVE IsSubsequence(_, _)
IsSubsequence(sub, seq) ==
    IF sub = <<>> THEN TRUE
    ELSE IF seq = <<>> THEN FALSE
    ELSE IF Head(sub) = Head(seq) THEN IsSubsequence(Tail(sub), Tail(seq))
                                         \/ IsSubsequence(sub, Tail(seq))
    ELSE IsSubsequence(sub, Tail(seq))

FrameSizes(frames) == [i \in 1..Len(frames) |-> frames[i].size]

\* C22: with a resize target (W,H) every frame load_frames_safely returns
\* has dimensions exactly (W,H), whatever the size and aspect ratio of the
\* source and for both formats; with no target every frame keeps the size of
\* its orientation-corrected source.
C22_FrameDimensions ==
    LoadCalls =>
        IF arg.resize_to # None
        THEN \A i \in 1..Len(ret[1].frames) : ret[1].frames[i].size = arg.resize_to
        ELSE IsSubsequence(FrameSizes(ret[1].frames), CorrectedSizes(arg.raws))

\* a source of another aspect ratio than the target came back at the target
\* size, and the call was for a turned source
C22_Witness ==
    /\ LoadCalls
    /\ arg.resize_to = <<2, 1>>
    /\ Len(ret[1].frames) = 2
    /\ arg.raws[1].size = <<2, 2>>
    /\ arg.raws[2].orientation = 6
    /\ ret[1].frames[1].size = <<2, 1>>

\* without a target a turned source gave a frame of the turned size
C22_TurnedSourceKeepsCorrectedSize ==
    /\ LoadCalls
    /\ arg.resize_to = None
    /\ arg.raws[1].size = <<1, 2>>
    /\ arg.raws[1].orientation = 6
    /\ ret[1].frames # <<>>
    /\ ret[1].frames[1].size = <<2, 1>>

\* ---- C23 ----------------------------------------------------------------
DiscoverCalls == arg.fn = "discover_images" /\ ret # <<>>

\* the names that end in jpg, jpeg, png, bmp, tif, tiff or webp after a dot,
\* in any case
C23_ImageNames ==
    { <<"a", ".", "p", "n", "g">>,
      <<"b", ".", "P", "N", "G">>,
      <<"c", ".", "j", "p", "g">>,
      <<"j", ".", "J", "P", "e", "g">>,
      <<"m", ".", "b", "m", "p">>,
      <<"t", ".", "t", "i", "f">>,
      <<"u", ".", "T", "I", "F", "F">>,
      <<"d", ".", "w", "e", "b", "p">> }

Walking == arg.fn = "with_image_open" /\ ret # <<>>

Returned == Walking /\ ~ret[1].inside /\ ret[1].next > Len(arg.paths)

\* C24: at every point at most one image file handle is open, and every
\* handle opened by get_image_size, has_alpha_channel or load_frames_safely
\* is closed before the next file is opened and before the function
\* returns, also when processing the file raises; the frames kept for
\* encoding do not depend on an open file.
C24_OneHandleAtATime ==
    Walking =>
        /\ Cardinality(ret[1].handles) <= 1
        /\ ~ret[1].inside => ret[1].handles = {}
        /\ ret[1].inside => ret[1].handles = {arg.paths[ret[1].next]}
        /\ \A i \in 1..Len(ret[1].frames) : ret[1].frames[i].file = None

\* load_frames_safely has returned after a file whose processing raised and
\* a file that gave a frame, and no handle is open
C24_Witness ==
    /\ Returned
    /\ arg.function = "load_frames_safely"
    /\ arg.paths = <<a_png, b_PNG, c_jpg>>
    /\ Len(ret[1].frames) = 2
    /\ ret[1].handles = {}

\* ---- C25 ----------------------------------------------------------------
\* what a run of main has come to
Outcome(r) ==
    [pc |-> r.pc, exit_code |-> r.exit_code, traceback |-> r.traceback,
     ordered |-> r.ordered, frames |-> r.frames, out_path |-> r.out_path,
     wrote |-> r.wrote]

\* C25: the flor and the soul variant are equivalent but for manual mode:
\* for every directory, flags and answers whose group selector is not '0',
\* both come to the same exit code, the same ordered frame list and the same
\* output path; on selector '0' flor enters manual selection and soul
\* rejects it with exit code 2.
C25_VariantsEquivalent ==
    LET flor == run[1]
        soul == run[2]
    IN  IF PastSelect(flor) /\ SelectorText(flor) = <<"0">>
        THEN /\ flor.pc = "manual" /\ flor.interactive_mode
             /\ RejectedAsUsage(soul)
        ELSE Outcome(flor) = Outcome(soul)

\* both variants wrote the same file from the frame of group 1
C25_Witness ==
    /\ run[1].variant = "flor" /\ run[2].variant = "soul"
    /\ Succeeded(run[1]) /\ Succeeded(run[2])
    /\ SelectorText(run[1]) = <<"1">>
    /\ Len(run[2].frames) = 1
    /\ run[1].out_path = run[2].out_path

\* selector '0': flor is in manual selection, soul has ended with 2
C25_ZeroReached ==
    /\ SelectorText(run[1]) = <<"0">>
    /\ run[1].pc = "manual"
    /\ run[2].pc = "done" /\ run[2].exit_code = 2

\* ---- C26 ----------------------------------------------------------------
\* the files in the directory that a run of the tool has written
WrittenByTool == {f.name : f \in {g \in dir : g.writer # 0}}

\* C26: discover_images skips a previously generated animation of the tool,
\* so over any sequence of runs in one directory the output of an earlier
\* run (a .webp output too) is never discovered, grouped or used as an input
\* frame by a later run.
C26_OutputsNeverDiscovered ==
    \A p \in Procs :
        /\ Elements(run[p].images) \cap WrittenByTool = {}
        /\ \A i \in 1..Len(run[p].groups) :
              Elements(run[p].groups[i].files) \cap WrittenByTool = {}
        /\ \A i \in 1..Len(run[p].frames) : run[p].frames[i].src \notin WrittenByTool

\* a later run has loaded the .webp output of an earlier run as a frame
C26_OutputUsedAsFrame ==
    \E p \in Procs :
        \E i \in 1..Len(run[p].frames) :
            /\ run[p].frames[i].src = PlainName(webp)
            /\ FileAt(dir, PlainName(webp)).writer \notin {0, run[p].id}

\* what does hold: a .gif output is never discovered
C26_GifOutputsNeverDiscovered ==
    \A p \in Procs : \A i \in 1..Len(run[p].images) :
        Lower(PathSuffix(run[p].images[i])) # <<".">> \o gif

\* ---- C27 ----------------------------------------------------------------
\* the run entered manual selection and its loop has been left
LeftLoop(r) == r.interactive_mode /\ r.pc # "manual"

LeftByDone(r) ==
    /\ r.user_input = <<"d", "o", "n", "e">>
    /\ r.selected_files # <<>>
    /\ r.ordered = r.selected_files

LeftByQuit(r) ==
    /\ r.user_input = <<"q", "u", "i", "t">>
    /\ r.pc = "done" /\ r.exit_code = 0

\* int() raised on an input that isdigit() accepts: nobody catches it
LeftByException(r) ==
    /\ IsDigit(r.user_input) /\ ~AllAsciiDigits(r.user_input)
    /\ r.pc = "done" /\ r.traceback

\* the 'No images selected in interactive mode' branch of main was taken
NoImagesSelectedBranch(r) ==
    /\ r.interactive_mode
    /\ r.pc = "done" /\ r.exit_code = 2
    /\ r.selected_files = <<>>

\* C27 as stated: interactive_image_selection never returns an empty list;
\* the loop is left only by 'done' with at least one selected frame or by
\* 'quit'; the exit-code-2 branch of main is never taken.
C27_LoopLeftByDoneOrQuit ==
    /\ LeftLoop(run[1]) => LeftByDone(run[1]) \/ LeftByQuit(run[1])
    /\ ~NoImagesSelectedBranch(run[1])

\* C27, amended: interactive_image_selection never returns an empty list
\* ('done' on an empty selection keeps the loop going); the loop is left by
\* 'done' with at least one selected frame, by 'quit', or by the exception
\* of int() on a digit-like input that is no decimal number; the
\* exit-code-2 branch of main is never taken.
C27_NeverReturnsEmpty ==
    /\ LeftLoop(run[1]) =>
          LeftByDone(run[1]) \/ LeftByQuit(run[1]) \/ LeftByException(run[1])
    /\ ~NoImagesSelectedBranch(run[1])
    /\ (run[1].pc = "manual" /\ run[1].user_input = <<"d", "o", "n", "e">>)
          => run[1].selected_files = <<>>

\* 'done' was entered on an empty selection and the loop goes on
C27_Witness ==
    /\ run[1].pc = "manual"
    /\ run[1].user_input = <<"d", "o", "n", "e">>
    /\ run[1].selected_before = <<>>
    /\ run[1].selected_files = <<>>

\* the loop was left by 'done' with two frames
C27_DoneReached ==
    /\ LeftLoop(run[1]) /\ LeftByDone(run[1])
    /\ Len(run[1].selected_files) = 2

\* ---- C28 ----------------------------------------------------------------
\* the step in which the user cancels: 'quit' in manual selection, or the
\* final confirmation declined (the only way from the confirmation to the end)
CancelStep ==
    \/ /\ run[1].pc = "manual"
       /\ run[1]'.pc = "done"
       /\ run[1]'.user_input = <<"q", "u", "i", "t">>
    \/ /\ run[1].pc = "confirm"
       /\ run[1]'.pc = "done"

\* C28: a run cancelled by the user, by 'quit' during manual selection or by
\* declining the final confirmation, ends with exit code 0 having loaded no
\* frame for encoding and written no file.
C28_CancelExitsZero ==
    [][CancelStep =>
          /\ run[1]'.exit_code = 0 /\ ~run[1]'.traceback
          /\ run[1]'.opened = <<>> /\ run[1]'.frames = <<>>
          /\ run[1]'.wrote = {}
          /\ dir' = dir]_vars

\* a run that declined the confirmation has ended with 0 and wrote nothing
C28_Witness ==
    /\ run[1].pc = "done" /\ run[1].exit_code = 0
    /\ "confirm" \in run[1].prompts
    /\ ~run[1].dry_run
    /\ run[1].opened = <<>> /\ run[1].wrote = {}
    /\ dir \in InitDirs

\* a run cancelled by 'quit' after a frame was selected
C28_QuitReached ==
    /\ run[1].pc = "done" /\ run[1].exit_code = 0
    /\ run[1].user_input = <<"q", "u", "i", "t">>
    /\ run[1].selected_files # <<>>
    /\ run[1].wrote = {}

\* exit code 0 with the animation written
C28_ZeroWithFileReached ==
    /\ run[1].pc = "done" /\ run[1].exit_code = 0
    /\ run[1].wrote # {}

\* ---- C30 ----------------------------------------------------------------
\* the pair a well-formed WIDTHxHEIGHT text names
SizeNamed(t) == <<IntOf(WidthText(t)).val, IntOf(HeightText(t)).val>>

\* C30: a format or resize value given on the command line takes precedence
\* over the answers collected by ask_user_preferences: with --format the
\* final format is its value whatever is answered at the format prompt,
\* with --resize the resize target is its parsed value whatever is answered
\* at the resize prompt (a malformed value ends the run with 2), and in
\* non-interactive mode with no --format the final format is gif and with
\* no --resize nothing is resized.
C30_FlagsTakePrecedence ==
    run[1].pc = "prefs" =>
        \A f \in FmtOptions, rs \in ResizeOptions,
           fmt_answer \in {gif, webp}, resize_typed \in ResizeAnswers :
            LET q == Preferences(run[1], f, rs, fmt_answer, resize_typed)
            IN  /\ f # None => q.final_fmt = f
                /\ (Truthy(rs) /\ ~Malformed(rs.val))
                      => q.resize_to = SizeNamed(rs.val) /\ q.pc = "plan"
                /\ (Truthy(rs) /\ Malformed(rs.val))
                      => q.pc = "done" /\ q.exit_code = 2
                /\ (run[1].non_interactive /\ f = None) => q.final_fmt = gif
                /\ (run[1].non_interactive /\ ~Truthy(rs)) => q.resize_to = None
                /\ run[1].non_interactive => q.prompts = run[1].prompts

\* --resize 2x1 was given, the format was not, so both prompts were asked;
\* 1X2 was typed at the resize prompt and the run resizes to 2x1
C30_Witness ==
    /\ run[1].pc = "plan"
    /\ run[1].resize = Opt(<<"2", "x", "1">>)
    /\ run[1].fmt = None
    /\ "resize" \in run[1].prompts
    /\ run[1].resize_input = <<"1", "X", "2">>
    /\ run[1].resize_to = <<2, 1>>

\* --format webp was given and the format prompt was asked all the same
C30_FormatFlagKept ==
    /\ run[1].pc = "plan"
    /\ run[1].fmt = webp
    /\ "format" \in run[1].prompts
    /\ run[1].final_fmt = webp

\* an empty --resize value was given and the answer at the prompt was taken
C30_EmptyResizeValueAsked ==
    /\ run[1].pc = "plan"
    /\ run[1].resize = Opt(<<>>)
    /\ run[1].resize_to = <<1, 2>>

\* ---- C29 ----------------------------------------------------------------
Originals == Elements(run[1].image_files)

ConvertedOriginals ==
    {run[1].converted_files[i].original : i \in 1..Len(run[1].converted_files)}

\* the file at the output path of the original holds the original's picture
HasOwnWebP(original) ==
    \E f \in dir : f.name = output_path(original) /\ f.content = original

\* C29: in the WebP batch converter an original is deleted only after the
\* user confirmed deletion and only if its own conversion returned an output
\* path; conversion never writes onto a discovered source file; after the
\* originals are deleted every deleted original still has its own converted
\* .webp file, and two distinct originals never share one output path.
C29_DeleteSafety ==
    /\ run[1].deleted # <<>> => run[1].delete_confirm
    /\ Elements(run[1].deleted) \subseteq ConvertedOriginals
    /\ \A i \in 1..Len(run[1].converted_files) :
          run[1].converted_files[i].webp \notin Originals
    /\ \A original \in Elements(run[1].deleted) : HasOwnWebP(original)
    /\ \A p, q \in Originals : p # q => output_path(p) # output_path(q)

\* what holds: deletion only after the confirmation and only of converted
\* originals, and no output path is a discovered source
C29_DeletesOnlyConverted ==
    /\ run[1].deleted # <<>> => run[1].delete_confirm
    /\ Elements(run[1].deleted) \subseteq ConvertedOriginals
    /\ \A i \in 1..Len(run[1].converted_files) :
          run[1].converted_files[i].webp \notin Originals
    /\ \A n \in Originals : output_path(n) \notin Originals

\* both originals of one base name are deleted and one .webp is left
C29_PictureLost ==
    /\ run[1].pc = "done"
    /\ Len(run[1].deleted) = 2
    /\ \E original \in Elements(run[1].deleted) : ~HasOwnWebP(original)
    /\ \A f \in dir : f.content # Damaged

=============================================================================
